---------------------------- MODULE Spec2Model ----------------------------
(***************************************************************************)
(* csv2pg-ai-schema-infer: the schema-inference engine.                    *)
(*                                                                         *)
(* Column names and cell values are sequences of one-character strings,    *)
(* so that sanitising, prefix grouping and pattern tests are computed      *)
(* character by character as the Python code computes them.  PostgreSQL    *)
(* type names (pg_type) are plain strings.                                 *)
(***************************************************************************)
EXTENDS Integers, Sequences, FiniteSets, TLC

(***************************************************************************)
(* Bounds of the model.                                                    *)
(***************************************************************************)
\* most columns in one sample
MaxCols == 3
\* largest chunk_size tried (chunk_size ranges over 1..MaxChunkSize)
MaxChunkSize == 2

(***************************************************************************)
(* Characters.                                                             *)
(***************************************************************************)
UpperChars == <<"A","B","C","D","E","F","G","H","I","J","K","L","M",
                "N","O","P","Q","R","S","T","U","V","W","X","Y","Z">>
LowerChars == <<"a","b","c","d","e","f","g","h","i","j","k","l","m",
                "n","o","p","q","r","s","t","u","v","w","x","y","z">>
DigitChars == <<"0","1","2","3","4","5","6","7","8","9">>

Range(s) == { s[i] : i \in DOMAIN s }

\* str.lower() on one character
LowerChar(c) ==
  IF \E i \in DOMAIN UpperChars : UpperChars[i] = c
  THEN LowerChars[CHOOSE i \in DOMAIN UpperChars : UpperChars[i] = c]
  ELSE c

\* str.lower()
Lower(s) == [i \in DOMAIN s |-> LowerChar(s[i])]

IsDigit(c) == c \in Range(DigitChars)
IsLowerAlpha(c) == c \in Range(LowerChars)
IsAlpha(c) == c \in Range(LowerChars) \cup Range(UpperChars)
IsHex(c) == IsDigit(c) \/ LowerChar(c) \in {"a","b","c","d","e","f"}
IsSpace(c) == c \in {" ", "\t", "\n"}

\* s[from..] as Python's s[from-1:]
Drop(s, n) == SubSeq(s, n + 1, Len(s))
Take(s, n) == SubSeq(s, 1, n)

\* `sub in s' for strings
Contains(s, sub) ==
  \E i \in 0..(Len(s) - Len(sub)) : SubSeq(s, i + 1, i + Len(sub)) = sub

\* s.endswith(suffix)
EndsWith(s, suffix) ==
  /\ Len(s) >= Len(suffix)
  /\ SubSeq(s, Len(s) - Len(suffix) + 1, Len(s)) = suffix

\* s.strip(chars): drop every leading and trailing character in chars
RECURSIVE LStrip(_, _)
LStrip(s, chars) ==
  IF s # <<>> /\ Head(s) \in chars THEN LStrip(Tail(s), chars) ELSE s

RECURSIVE RStrip(_, _)
RStrip(s, chars) ==
  IF s # <<>> /\ s[Len(s)] \in chars
  THEN RStrip(Take(s, Len(s) - 1), chars) ELSE s

StripChars(s, chars) == RStrip(LStrip(s, chars), chars)

(***************************************************************************)
(* inference.py: the name sanitizer.                                       *)
(***************************************************************************)
POSTGRES_RESERVED_KEYWORDS ==
    {
      <<"a","l","l">>,
      <<"a","n","a","l","y","s","e">>,
      <<"a","n","a","l","y","z","e">>,
      <<"a","n","d">>,
      <<"a","n","y">>,
      <<"a","r","r","a","y">>,
      <<"a","s">>,
      <<"a","s","c">>,
      <<"a","s","y","m","m","e","t","r","i","c">>,
      <<"b","o","t","h">>,
      <<"c","a","s","e">>,
      <<"c","a","s","t">>,
      <<"c","h","e","c","k">>,
      <<"c","o","l","l","a","t","e">>,
      <<"c","o","l","u","m","n">>,
      <<"c","o","n","s","t","r","a","i","n","t">>,
      <<"c","r","e","a","t","e">>,
      <<"c","u","r","r","e","n","t","_","c","a","t","a","l","o","g">>,
      <<"c","u","r","r","e","n","t","_","d","a","t","e">>,
      <<"c","u","r","r","e","n","t","_","r","o","l","e">>,
      <<"c","u","r","r","e","n","t","_","t","i","m","e">>,
      <<"c","u","r","r","e","n","t","_","t","i","m","e","s","t","a","m","p">>,
      <<"c","u","r","r","e","n","t","_","u","s","e","r">>,
      <<"d","e","f","a","u","l","t">>,
      <<"d","e","f","e","r","r","a","b","l","e">>,
      <<"d","e","s","c">>,
      <<"d","i","s","t","i","n","c","t">>,
      <<"d","o">>,
      <<"e","l","s","e">>,
      <<"e","n","d">>,
      <<"e","x","c","e","p","t">>,
      <<"f","a","l","s","e">>,
      <<"f","e","t","c","h">>,
      <<"f","o","r">>,
      <<"f","o","r","e","i","g","n">>,
      <<"f","r","o","m">>,
      <<"g","r","a","n","t">>,
      <<"g","r","o","u","p">>,
      <<"h","a","v","i","n","g">>,
      <<"i","n">>,
      <<"i","n","i","t","i","a","l","l","y">>,
      <<"i","n","t","e","r","s","e","c","t">>,
      <<"i","n","t","o">>,
      <<"l","a","t","e","r","a","l">>,
      <<"l","e","a","d","i","n","g">>,
      <<"l","i","m","i","t">>,
      <<"l","o","c","a","l","t","i","m","e">>,
      <<"l","o","c","a","l","t","i","m","e","s","t","a","m","p">>,
      <<"n","o","t">>,
      <<"n","u","l","l">>,
      <<"o","f","f","s","e","t">>,
      <<"o","n">>,
      <<"o","n","l","y">>,
      <<"o","r">>,
      <<"o","r","d","e","r">>,
      <<"p","l","a","c","i","n","g">>,
      <<"p","r","i","m","a","r","y">>,
      <<"r","e","f","e","r","e","n","c","e","s">>,
      <<"r","e","t","u","r","n","i","n","g">>,
      <<"s","e","l","e","c","t">>,
      <<"s","e","s","s","i","o","n","_","u","s","e","r">>,
      <<"s","o","m","e">>,
      <<"s","y","m","m","e","t","r","i","c">>,
      <<"t","a","b","l","e">>,
      <<"t","h","e","n">>,
      <<"t","o">>,
      <<"t","r","a","i","l","i","n","g">>,
      <<"t","r","u","e">>,
      <<"u","n","i","o","n">>,
      <<"u","n","i","q","u","e">>,
      <<"u","s","e","r">>,
      <<"u","s","i","n","g">>,
      <<"v","a","r","i","a","d","i","c">>,
      <<"w","h","e","n">>,
      <<"w","h","e","r","e">>,
      <<"w","i","n","d","o","w">>,
      <<"w","i","t","h">>
    }

\* re.sub(r'[^a-z0-9_]', '_', name)
ReplaceSpecial(s) ==
  [i \in DOMAIN s |->
     IF IsLowerAlpha(s[i]) \/ IsDigit(s[i]) \/ s[i] = "_" THEN s[i] ELSE "_"]

\* name.replace('__', '_'): every pair of underscores, left to right, once
RECURSIVE CollapsePairs(_)
CollapsePairs(s) ==
  IF Len(s) <= 1 THEN s
  ELSE IF s[1] = "_" /\ s[2] = "_" THEN <<"_">> \o CollapsePairs(Drop(s, 2))
  ELSE <<s[1]>> \o CollapsePairs(Tail(s))

\* re.sub(r'_+', '_', name)
RECURSIVE CollapseUnderscores(_)
CollapseUnderscores(s) ==
  IF Len(s) <= 1 THEN s
  ELSE IF s[1] = "_" /\ s[2] = "_" THEN CollapseUnderscores(Tail(s))
  ELSE <<s[1]>> \o CollapseUnderscores(Tail(s))

StripUnderscores(s) == StripChars(s, {"_"})

\* a leading digit guarded by an underscore
PrefixUnderscoreIfDigit(s) ==
  IF s # <<>> /\ IsDigit(s[1]) THEN <<"_">> \o s ELSE s

PrefixIfDigit(s) ==
  IF s # <<>> /\ IsDigit(s[1]) THEN <<"c","o","l","_">> \o s ELSE s

DefaultIfEmpty(s) ==
  IF s = <<>> THEN <<"u","n","n","a","m","e","d","_","c","o","l","u","m","n">>
  ELSE s

SuffixIfReserved(s) ==
  IF s \in POSTGRES_RESERVED_KEYWORDS THEN s \o <<"_","c","o","l">> ELSE s

sanitize_column_name(name) ==
  SuffixIfReserved(
    DefaultIfEmpty(
      PrefixIfDigit(
        StripUnderscores(
          CollapseUnderscores(
            ReplaceSpecial(
              Lower(name)))))))

(***************************************************************************)
(* types.py: ColumnSample.  A cell is None or the text str(v) of its value; *)
(* None is a one-element sequence whose element is no character.           *)
(***************************************************************************)
None == <<"<None>">>

\* str(v).strip()
Strip(v) == StripChars(v, {" ", "\t", "\n"})

\* v is None or str(v).strip() == ""
IsNullCell(v) == v = None \/ Strip(v) = <<>>

\* ColumnSample.null_percentage > 0, with null_percentage =
\* null_count / total_count * 100 in floating point, and 0.0 when total_count = 0
null_percentage_positive(column) ==
  column.total_count # 0 /\ column.null_count > 0

(***************************************************************************)
(* inference.py: heuristic_type_inference, pattern by pattern.             *)
(***************************************************************************)
\* sample_values = non_null_values[:100]
SampleLimit == 100

\* [v for v in column.values if v is not None and str(v).strip()]
non_null_values(column) == SelectSeq(column.values, LAMBDA v : ~IsNullCell(v))

\* [str(v).strip() for v in non_null_values[:100]]
str_values(column) ==
  LET nn == non_null_values(column)
      sample_values == Take(nn, IF Len(nn) < SampleLimit THEN Len(nn) ELSE SampleLimit)
  IN  [i \in DOMAIN sample_values |-> Strip(sample_values[i])]

\* ^[0-9a-f]{8}-[0-9a-f]{4}-[0-9a-f]{4}-[0-9a-f]{4}-[0-9a-f]{12}$, re.IGNORECASE
uuid_pattern(v) ==
  /\ Len(v) = 36
  /\ \A i \in 1..36 : IF i \in {9, 14, 19, 24} THEN v[i] = "-" ELSE IsHex(v[i])

boolean_values ==
  { <<"t","r","u","e">>,
    <<"f","a","l","s","e">>,
    <<"t">>,
    <<"f">>,
    <<"y","e","s">>,
    <<"n","o">>,
    <<"y">>,
    <<"n">>,
    <<"1">>,
    <<"0">> }

\* a run of digits, single underscores allowed between digits
IsDigitPart(s) ==
  /\ s # <<>>
  /\ IsDigit(s[1]) /\ IsDigit(s[Len(s)])
  /\ \A i \in DOMAIN s : IsDigit(s[i]) \/ s[i] = "_"
  /\ \A i \in 1..(Len(s) - 1) : ~(s[i] = "_" /\ s[i + 1] = "_")

HasSign(s) == s # <<>> /\ s[1] \in {"+", "-"}
Unsigned(s) == IF HasSign(s) THEN Tail(s) ELSE s

\* int(v) does not raise ValueError
IsPyInt(v) == IsDigitPart(Unsigned(v))

\* the decimal digits of |int(v)| without leading zeros (<<>> for zero)
Magnitude(v) ==
  LStrip(SelectSeq(Unsigned(v), LAMBDA c : c # "_"), {"0"})

DigitValue(c) == (CHOOSE i \in DOMAIN DigitChars : DigitChars[i] = c) - 1

\* a <= b for digit strings without leading zeros
RECURSIVE DigitsLeq(_, _)
DigitsLeq(a, b) ==
  IF Len(a) # Len(b) THEN Len(a) < Len(b)
  ELSE IF a = <<>> THEN TRUE
  ELSE IF a[1] # b[1] THEN DigitValue(a[1]) < DigitValue(b[1])
  ELSE DigitsLeq(Tail(a), Tail(b))

\* a range test with the same bound on both sides
InInt32Symmetric(v) ==
  DigitsLeq(Magnitude(v), <<"2","1","4","7","4","8","3","6","4","8">>)

\* -2147483648 <= int(v) <= 2147483647
InInt32(v) ==
  IF v[1] = "-"
  THEN DigitsLeq(Magnitude(v), <<"2","1","4","7","4","8","3","6","4","8">>)
  ELSE DigitsLeq(Magnitude(v), <<"2","1","4","7","4","8","3","6","4","7">>)

\* -2147483648 <= min_val <= 2147483647 and -2147483648 <= max_val <= 2147483647:
\* the least and the greatest value are in range iff every value is
integer_pg_type(strs) ==
  IF \A i \in DOMAIN strs : InInt32(strs[i]) THEN "integer" ELSE "bigint"

\* digits [. digits] | . digits | digits .
IsMantissa(m) ==
  \/ IsDigitPart(m)
  \/ \E k \in DOMAIN m :
       /\ m[k] = "."
       /\ LET left == Take(m, k - 1)
              right == Drop(m, k)
          IN  /\ left = <<>> \/ IsDigitPart(left)
              /\ right = <<>> \/ IsDigitPart(right)
              /\ ~(left = <<>> /\ right = <<>>)

\* "" | (e|E) [+-] digits
IsExponent(e) ==
  \/ e = <<>>
  \/ /\ e[1] \in {"e", "E"}
     /\ IsDigitPart(Unsigned(Tail(e)))

\* float(v) is infinite: the literals inf and infinity (a decimal literal
\* beyond the range of a float, 1e309, is read as infinite too; the inputs
\* of the model hold none)
IsInfLiteral(v) == Lower(Unsigned(v)) \in { <<"i","n","f">>, <<"i","n","f","i","n","i","t","y">> }
IsNanLiteral(v) == Lower(Unsigned(v)) = <<"n","a","n">>

IsDecimalLiteral(v) ==
  \E k \in 1..Len(Unsigned(v)) :
    /\ IsMantissa(Take(Unsigned(v), k))
    /\ IsExponent(Drop(Unsigned(v), k))

\* float(v) does not raise ValueError
IsPyFloat(v) == IsInfLiteral(v) \/ IsNanLiteral(v) \/ IsDecimalLiteral(v)

RECURSIVE DigitsToNat(_)
DigitsToNat(s) ==
  IF s = <<>> THEN 0
  ELSE 10 * DigitsToNat(Take(s, Len(s) - 1)) + DigitValue(s[Len(s)])

\* float(v) != int(float(v)) for a finite decimal literal: with the literal
\* read as int_digits . frac_digits * 10^exp, a non-zero digit stays right of
\* the point
HasFraction(v) ==
  LET u == SelectSeq(Unsigned(v), LAMBDA c : c # "_")
      epos == IF \E k \in DOMAIN u : u[k] \in {"e", "E"}
              THEN CHOOSE k \in DOMAIN u : u[k] \in {"e", "E"} ELSE Len(u) + 1
      mant == Take(u, epos - 1)
      expo == Drop(u, epos)
      exp == IF expo = <<>> THEN 0
             ELSE IF expo[1] = "-" THEN 0 - DigitsToNat(Tail(expo))
             ELSE DigitsToNat(Unsigned(expo))
      dot == IF \E k \in DOMAIN mant : mant[k] = "."
             THEN CHOOSE k \in DOMAIN mant : mant[k] = "." ELSE Len(mant) + 1
      int_digits == Take(mant, dot - 1)
      frac_digits == Drop(mant, dot)
      all_digits == int_digits \o frac_digits
      \* number of leading digits of all_digits left of the point after the shift
      kept == Len(int_digits) + exp
  IN  \E i \in DOMAIN all_digits : i > kept /\ all_digits[i] # "0"

\* has_decimals = any(v != int(v) for v in float_values if not (v != v)):
\* the scan stops at the first finite value with a fraction (True); int(v) of
\* an infinite value met before that raises OverflowError, which the
\* except (ValueError, TypeError) clause does not catch
RECURSIVE has_decimals_scan(_)
has_decimals_scan(strs) ==
  IF strs = <<>> THEN "false"
  ELSE IF IsNanLiteral(strs[1]) THEN has_decimals_scan(Tail(strs))
  ELSE IF IsInfLiteral(strs[1]) THEN "OverflowError"
  ELSE IF HasFraction(strs[1]) THEN "true"
  ELSE has_decimals_scan(Tail(strs))

IsDigits(s, n) == Len(s) = n /\ \A i \in DOMAIN s : IsDigit(s[i])

\* ^\d{4}-\d{2}-\d{2}$
date_pattern(v) ==
  /\ Len(v) = 10
  /\ IsDigits(SubSeq(v, 1, 4), 4) /\ v[5] = "-"
  /\ IsDigits(SubSeq(v, 6, 7), 2) /\ v[8] = "-"
  /\ IsDigits(SubSeq(v, 9, 10), 2)

\* ^\d{4}-\d{2}-\d{2}[T ]\d{2}:\d{2}:\d{2}  (a prefix match)
timestamp_pattern(v) ==
  /\ Len(v) >= 19
  /\ date_pattern(SubSeq(v, 1, 10))
  /\ v[11] \in {"T", " "}
  /\ IsDigits(SubSeq(v, 12, 13), 2) /\ v[14] = ":"
  /\ IsDigits(SubSeq(v, 15, 16), 2) /\ v[17] = ":"
  /\ IsDigits(SubSeq(v, 18, 19), 2)

IsEmailLocalChar(c) == IsAlpha(c) \/ IsDigit(c) \/ c \in {".", "_", "%", "+", "-"}
IsEmailDomainChar(c) == IsAlpha(c) \/ IsDigit(c) \/ c \in {".", "-"}

\* ^[a-zA-Z0-9._%+-]+@[a-zA-Z0-9.-]+\.[a-zA-Z]{2,}$
email_pattern(v) ==
  \E a \in DOMAIN v : \E d \in DOMAIN v :
    /\ v[a] = "@" /\ v[d] = "." /\ a < d
    /\ a > 1 /\ \A i \in 1..(a - 1) : IsEmailLocalChar(v[i])
    /\ d > a + 1 /\ \A i \in (a + 1)..(d - 1) : IsEmailDomainChar(v[i])
    /\ Len(v) - d >= 2 /\ \A i \in (d + 1)..Len(v) : IsAlpha(v[i])

RECURSIVE MaxLen(_)
MaxLen(strs) ==
  IF strs = <<>> THEN 0
  ELSE LET rest == MaxLen(Tail(strs))
       IN  IF Len(strs[1]) > rest THEN Len(strs[1]) ELSE rest

\* varchar(n + 50): the buffer added to the longest value
VarcharBuffer == 50
\* the longest value that still gets a varchar
VarcharLimit == 255

currency_keywords ==
  { <<"u","s","d">>,
    <<"p","r","i","c","e">>,
    <<"v","a","l","u","e">>,
    <<"a","m","o","u","n","t">>,
    <<"t","o","t","a","l">>,
    <<"f","u","n","d","i","n","g">>,
    <<"v","a","l","u","a","t","i","o","n">> }

\* reasoning holds the fixed text of the message (the code appends the range
\* or the length it found); constraints and cast_rule keep their defaults
InferredType(name, pg_type, confidence, reasoning, nullable) ==
  [column_name |-> name, pg_type |-> pg_type, confidence |-> confidence,
   reasoning |-> reasoning, nullable |-> nullable,
   constraints |-> <<>>, cast_rule |-> None]

\* TRUE when the call ends in an uncaught exception instead of a return
heuristic_raises(column) ==
  LET strs == str_values(column)
  IN  /\ strs # <<>>
      /\ ~(\A i \in DOMAIN strs : uuid_pattern(strs[i]))
      /\ ~(\A i \in DOMAIN strs : Lower(strs[i]) \in boolean_values)
      /\ ~(\A i \in DOMAIN strs : IsPyInt(strs[i]))
      /\ \A i \in DOMAIN strs : IsPyFloat(strs[i])
      /\ has_decimals_scan(strs) = "OverflowError"

\* the InferredType returned (when the call returns)
heuristic_type_inference(column) ==
  LET sanitized_name == sanitize_column_name(column.name)
      strs == str_values(column)
      nullable == null_percentage_positive(column)
      is_currency_column ==
        \E keyword \in currency_keywords : Contains(sanitized_name, keyword)
  IN  IF strs = <<>>
      THEN InferredType(sanitized_name, "text", "LOW",
                        "All values are null, defaulting to text", TRUE)
      ELSE IF \A i \in DOMAIN strs : uuid_pattern(strs[i])
      THEN InferredType(sanitized_name, "uuid", "HIGH",
                        "All values match UUID pattern", nullable)
      ELSE IF \A i \in DOMAIN strs : Lower(strs[i]) \in boolean_values
      THEN InferredType(sanitized_name, "boolean", "HIGH",
                        "All values are boolean-like", nullable)
      ELSE IF \A i \in DOMAIN strs : IsPyInt(strs[i])
      THEN InferredType(sanitized_name, integer_pg_type(strs), "HIGH",
                        "All values are integers", nullable)
      ELSE IF \A i \in DOMAIN strs : IsPyFloat(strs[i])
      THEN IF is_currency_column \/ has_decimals_scan(strs) = "true"
           THEN InferredType(sanitized_name, "numeric", "HIGH",
                  "Numeric values with decimal precision (or currency column)",
                  nullable)
           ELSE InferredType(sanitized_name, "numeric", "MEDIUM",
                             "All values are numeric", nullable)
      ELSE IF \A i \in DOMAIN strs : date_pattern(strs[i])
      THEN InferredType(sanitized_name, "date", "HIGH",
                        "All values match date pattern (YYYY-MM-DD)", nullable)
      ELSE IF \A i \in DOMAIN strs : timestamp_pattern(strs[i])
      THEN InferredType(sanitized_name, "timestamptz", "HIGH",
                        "All values match timestamp pattern", nullable)
      ELSE IF \A i \in DOMAIN strs : email_pattern(strs[i])
      THEN InferredType(sanitized_name, "text", "MEDIUM",
                        "All values match email pattern", nullable)
      ELSE IF MaxLen(strs) < VarcharLimit
      THEN InferredType(sanitized_name,
                        "varchar(" \o ToString(MaxLen(strs) + VarcharBuffer) \o ")",
                        "MEDIUM", "String values with max length", nullable)
      ELSE InferredType(sanitized_name, "text", "MEDIUM",
                        "String values with max length", nullable)

(***************************************************************************)
(* chunker.py.  A ColumnChunk is [chunk_id, total_chunks, columns]; its     *)
(* sample_data field (the rows projected on its columns) is read only by   *)
(* the provider's prompt and is left out.                                  *)
(***************************************************************************)
Min(a, b) == IF a < b THEN a ELSE b

\* a chunker without the test for an empty header list
chunker_accepts_empty(headers) == FALSE

\* both chunkers: raise ValueError("No columns to chunk")
chunker_raises(headers) == Len(headers) = 0

\* chunks numbered from 1
ColumnChunkFromOne(chunk_id, total_chunks, columns) ==
  [chunk_id |-> chunk_id + 1, total_chunks |-> total_chunks, columns |-> columns]

ColumnChunk(chunk_id, total_chunks, columns) ==
  [chunk_id |-> chunk_id, total_chunks |-> total_chunks, columns |-> columns]

\* chunk_columns with the chunk count rounded down instead of up
chunk_columns_floor(headers, chunk_size) ==
  LET total_columns == Len(headers)
      total_chunks == total_columns \div chunk_size
  IN  [k \in 1..total_chunks |->
         LET i == k - 1
             start_idx == i * chunk_size
             end_idx == Min(start_idx + chunk_size, total_columns)
         IN  ColumnChunk(i, total_chunks, SubSeq(headers, start_idx + 1, end_idx))]

chunk_columns(headers, chunk_size) ==
  LET total_columns == Len(headers)
      total_chunks == (total_columns + chunk_size - 1) \div chunk_size
  IN  [k \in 1..total_chunks |->
         LET i == k - 1
             start_idx == i * chunk_size
             end_idx == Min(start_idx + chunk_size, total_columns)
         IN  ColumnChunk(i, total_chunks, SubSeq(headers, start_idx + 1, end_idx))]

\* col.split("_")[0] if "_" in col else "other"
column_prefix(col) ==
  IF \E i \in DOMAIN col : col[i] = "_"
  THEN Take(col, (CHOOSE i \in DOMAIN col :
                    col[i] = "_" /\ \A j \in 1..(i - 1) : col[j] # "_") - 1)
  ELSE <<"o","t","h","e","r">>

\* a grouping that opens a group for every column
group_by_position(columns, groups) ==
  [k \in DOMAIN columns |->
     [prefix |-> column_prefix(columns[k]), columns |-> <<columns[k]>>]]

\* groups: dict[str, list[str]], as the sequence of its items in insertion order
RECURSIVE group_by_prefix(_, _)
group_by_prefix(columns, groups) ==
  IF columns = <<>> THEN groups
  ELSE LET col == Head(columns)
           prefix == column_prefix(col)
       IN  IF \E g \in DOMAIN groups : groups[g].prefix = prefix
           THEN group_by_prefix(Tail(columns),
                  [g \in DOMAIN groups |->
                     IF groups[g].prefix = prefix
                     THEN [groups[g] EXCEPT !.columns = Append(@, col)]
                     ELSE groups[g]])
           ELSE group_by_prefix(Tail(columns),
                  Append(groups, [prefix |-> prefix, columns |-> <<col>>]))

\* for i in range(0, len(group_columns), chunk_size): group_columns[i : i + chunk_size]
RECURSIVE split_group(_, _)
split_group(group_columns, chunk_size) ==
  IF group_columns = <<>> THEN <<>>
  ELSE <<Take(group_columns, Min(chunk_size, Len(group_columns)))>>
       \o split_group(Drop(group_columns, Min(chunk_size, Len(group_columns))),
                      chunk_size)

\* a packing that extends the running chunk whatever its size
RECURSIVE pack_groups_unbounded(_, _, _)
pack_groups_unbounded(groups, chunk_size, acc) ==
  IF groups = <<>> THEN acc
  ELSE pack_groups_unbounded(Tail(groups), chunk_size,
         [acc EXCEPT !.current_chunk = @ \o Head(groups).columns])

\* the loop over groups.items(); acc is [chunks_data, current_chunk]
RECURSIVE pack_groups(_, _, _)
pack_groups(groups, chunk_size, acc) ==
  IF groups = <<>> THEN acc
  ELSE LET group_columns == Head(groups).columns
           next ==
             IF Len(acc.current_chunk) + Len(group_columns) > chunk_size
             THEN LET saved == IF acc.current_chunk # <<>>
                               THEN Append(acc.chunks_data, acc.current_chunk)
                               ELSE acc.chunks_data
                  IN  IF Len(group_columns) > chunk_size
                      THEN [chunks_data |-> saved \o split_group(group_columns, chunk_size),
                            current_chunk |-> <<>>]
                      ELSE [chunks_data |-> saved, current_chunk |-> group_columns]
             ELSE [acc EXCEPT !.current_chunk = @ \o group_columns]
       IN  pack_groups(Tail(groups), chunk_size, next)

chunk_columns_smart(headers, chunk_size) ==
  LET groups == group_by_prefix(headers, <<>>)
      packed == pack_groups(groups, chunk_size,
                            [chunks_data |-> <<>>, current_chunk |-> <<>>])
      chunks_data == IF packed.current_chunk # <<>>
                     THEN Append(packed.chunks_data, packed.current_chunk)
                     ELSE packed.chunks_data
      total_chunks == Len(chunks_data)
  IN  [k \in 1..total_chunks |-> ColumnChunk(k - 1, total_chunks, chunks_data[k])]

(***************************************************************************)
(* inference.py: column samples, schema assembly, primary key.             *)
(***************************************************************************)
\* row.get(col_name): the cell, or None when the row has no such key
RowGet(row, col_name) ==
  IF col_name \in DOMAIN row THEN row[col_name] ELSE None

RECURSIVE CountNull(_)
CountNull(values) ==
  IF values = <<>> THEN 0
  ELSE (IF IsNullCell(Head(values)) THEN 1 ELSE 0) + CountNull(Tail(values))

build_column_samples(sample) ==
  [k \in DOMAIN sample.headers |->
     LET col_name == sample.headers[k]
         values == [r \in DOMAIN sample.rows |-> RowGet(sample.rows[r], col_name)]
     IN  [name |-> sanitize_column_name(col_name),
          values |-> values,
          null_count |-> CountNull(values),
          total_count |-> Len(values)]]

\* sample_map = {cs.name: cs for cs in column_samples}: a later sample with the
\* same (sanitized) name replaces an earlier one
InSampleMap(column_samples, col_name) ==
  \E k \in DOMAIN column_samples : column_samples[k].name = col_name

SampleMapGet(column_samples, col_name) ==
  column_samples[CHOOSE k \in DOMAIN column_samples :
                   /\ column_samples[k].name = col_name
                   /\ \A j \in DOMAIN column_samples :
                        column_samples[j].name = col_name => j <= k]

\* a conversion that writes the key into the column
ColumnSchemaKeyed(inferred) ==
  [name |-> inferred.column_name, pg_type |-> inferred.pg_type,
   nullable |-> inferred.nullable,
   constraints |-> inferred.constraints \o <<"PRIMARY KEY">>,
   cast_rule |-> inferred.cast_rule]

ColumnSchema(inferred) ==
  [name |-> inferred.column_name, pg_type |-> inferred.pg_type,
   nullable |-> inferred.nullable, constraints |-> inferred.constraints,
   cast_rule |-> inferred.cast_rule]

\* the "Convert to schema" loop
to_columns(all_inferred_types) ==
  [k \in DOMAIN all_inferred_types |-> ColumnSchema(all_inferred_types[k])]

NoCandidate == 0 - 1

\* the if/elif chain of infer_schema_async that appends (priority, col.name)
pk_priority(col) ==
  LET col_lower == Lower(col.name)
  IN  IF col.pg_type = "uuid"
      THEN IF Contains(col_lower, <<"i","d","e","n","t","i","f","i","e","r">>) /\ Contains(col_lower, <<"u","u","i","d">>)
           THEN 0
           ELSE IF col_lower = <<"u","u","i","d">> THEN 1
           ELSE IF Contains(col_lower, <<"u","u","i","d">>) THEN 2
           ELSE NoCandidate
      ELSE IF col_lower = <<"i","d">> THEN 3
      ELSE IF EndsWith(col_lower, <<"_","i","d">>) /\ col.pg_type \in {"integer", "bigint"}
      THEN 4
      ELSE NoCandidate

\* the same chain in infer_schema_heuristic
pk_priority_heuristic(col) ==
  LET col_lower == Lower(col.name)
  IN  IF col.pg_type = "uuid"
      THEN IF Contains(col_lower, <<"i","d","e","n","t","i","f","i","e","r">>) /\ Contains(col_lower, <<"u","u","i","d">>)
           THEN 0
           ELSE IF col_lower = <<"u","u","i","d">> THEN 1
           ELSE IF Contains(col_lower, <<"u","u","i","d">>) THEN 2
           ELSE NoCandidate
      ELSE IF col_lower = <<"i","d">> THEN 3
      ELSE IF EndsWith(col_lower, <<"_","i","d">>) /\ col.pg_type \in {"integer", "bigint"}
      THEN 4
      ELSE NoCandidate

\* the candidates recorded under the lowercased name instead of col.name
pk_candidates_lowercased(columns) ==
  SelectSeq([k \in DOMAIN columns |->
               <<pk_priority(columns[k]), Lower(columns[k].name)>>],
            LAMBDA p : p[1] # NoCandidate)

\* pk_candidates: the (priority, col.name) pairs appended, in column order
pk_candidates_async(columns) ==
  SelectSeq([k \in DOMAIN columns |-> <<pk_priority(columns[k]), columns[k].name>>],
            LAMBDA p : p[1] # NoCandidate)

pk_candidates_heuristic(columns) ==
  SelectSeq([k \in DOMAIN columns |->
               <<pk_priority_heuristic(columns[k]), columns[k].name>>],
            LAMBDA p : p[1] # NoCandidate)

\* a selection that takes the latest pair of the lowest priority
last_after_sort(pk_candidates) ==
  pk_candidates[CHOOSE i \in DOMAIN pk_candidates :
                  \A j \in DOMAIN pk_candidates :
                    \/ pk_candidates[i][1] < pk_candidates[j][1]
                    \/ pk_candidates[i][1] = pk_candidates[j][1] /\ j <= i]

\* pk_candidates.sort(key=lambda x: x[0]); pk_candidates[0][1]: list.sort is
\* stable, so element 0 is the earliest pair of the lowest priority
first_after_sort(pk_candidates) ==
  pk_candidates[CHOOSE i \in DOMAIN pk_candidates :
                  \A j \in DOMAIN pk_candidates :
                    \/ pk_candidates[i][1] < pk_candidates[j][1]
                    \/ pk_candidates[i][1] = pk_candidates[j][1] /\ i <= j]

select_primary_key(columns) ==
  LET pk_candidates == pk_candidates_async(columns)
  IN  IF pk_candidates # <<>> THEN first_after_sort(pk_candidates)[2] ELSE None

select_primary_key_heuristic(columns) ==
  LET pk_candidates == pk_candidates_heuristic(columns)
  IN  IF pk_candidates # <<>> THEN first_after_sort(pk_candidates)[2] ELSE None

TableSchema(table_name, columns, primary_key) ==
  [table_name |-> table_name, columns |-> columns, primary_key |-> primary_key]

\* infer_schema_heuristic ends in an exception of the classifier
infer_schema_heuristic_raises(sample) ==
  \E k \in DOMAIN sample.headers :
    heuristic_raises(build_column_samples(sample)[k])

\* infer_schema_heuristic, when it returns
infer_schema_heuristic(sample) ==
  LET column_samples == build_column_samples(sample)
      columns == [k \in DOMAIN column_samples |->
                    ColumnSchema(heuristic_type_inference(column_samples[k]))]
  IN  TableSchema(sanitize_column_name(sample.stem), columns,
                  select_primary_key_heuristic(columns))

(***************************************************************************)
(* The external capability (llm/base.py): infer_types(chunk) resolves to a *)
(* list of InferredType or to an exception.  A reply holds one entry per    *)
(* column of the chunk; a reply style says whether the provider echoes the *)
(* header as it stands in the prompt or returns it sanitized, and which    *)
(* type and constraints it answers.                                        *)
(***************************************************************************)
ReplyStyles ==
  { [echo |-> TRUE, pg_type |-> "integer", constraints |-> <<>>],
    [echo |-> FALSE, pg_type |-> "uuid", constraints |-> <<"UNIQUE">>] }

LLMReply(chunk, style) ==
  [k \in DOMAIN chunk.columns |->
     [column_name |-> IF style.echo THEN chunk.columns[k]
                      ELSE sanitize_column_name(chunk.columns[k]),
      pg_type |-> style.pg_type, confidence |-> "HIGH",
      reasoning |-> "llm", nullable |-> TRUE,
      constraints |-> style.constraints, cast_rule |-> None]]

(***************************************************************************)
(* The inputs of a run.                                                    *)
(***************************************************************************)
UUID1 == <<"5","5","0","e","8","4","0","0","-","e","2","9","b","-","4","1","d","4","-","a","7","1","6","-","4","4","6","6","5","5","4","4","0","0","0","0">>

\* the columns a sample is drawn from: a raw header and the cells below it
ColumnPool ==
  { [name |-> <<"i","d">>, cells |-> <<UUID1, UUID1>>],
    [name |-> <<"I","d">>, cells |-> << <<"1">>, <<"2">> >>],
    [name |-> <<"u","s","e","r","_","i","d">>, cells |-> << <<"7">>, None >>],
    [name |-> <<"u","u","i","d">>, cells |-> <<UUID1, UUID1>>],
    [name |-> <<"u","s","e","r","_","u","u","i","d">>, cells |-> <<UUID1, None>>],
    [name |-> <<"i","d","e","n","t","i","f","i","e","r","_","u","u","i","d">>, cells |-> <<UUID1, UUID1>>],
    [name |-> <<"r","a","t","e">>, cells |-> << <<"i","n","f">>, <<"1">> >>] }

\* the sequences of at most MaxCols pool columns with pairwise distinct headers
ColumnLists ==
  { cols \in UNION { [1..n -> ColumnPool] : n \in 0..MaxCols } :
      \A i \in DOMAIN cols : \A j \in DOMAIN cols :
        cols[i].name = cols[j].name => i = j }

\* CSVSample: headers, rows (one dict per row, keyed by header), path.stem
CSVSample(cols) ==
  [headers |-> [k \in DOMAIN cols |-> cols[k].name],
   rows |-> IF cols = <<>> THEN <<>>
            ELSE [r \in DOMAIN cols[1].cells |->
                    [h \in { cols[k].name : k \in DOMAIN cols } |->
                       (CHOOSE c \in Range(cols) : c.name = h).cells[r]]],
   stem |-> <<"D","a","t","a","-","1">>]

(***************************************************************************)
(* State.                                                                  *)
(***************************************************************************)
VARIABLES
  sample,              \* the CSVSample of the run
  chunk_size,          \* parameters of infer_schema_async
  use_smart_chunking,
  use_fallback,
  entry,               \* "async": infer_schema_async; "heuristic": infer_schema_heuristic
  phase,               \* the position of the run
  chunks,              \* the chunks of the run
  tasks,               \* tasks[k]: the request for chunks[k]
  results,             \* what gather returned
  all_inferred_types,
  failed_chunks,
  schema,              \* the TableSchema returned (NoSchema before, and on failure)
  arg,                 \* the argument of a single call of a function (None: no call)
  ret,                 \* what the call returned or raised (None: not yet)
  state_file,          \* StateManager.state_file on disk
  temp_file,           \* the temporary file of the save_state under way
  pc,                  \* the position of save_state
  faults,              \* the file operations that fail during this save_state
  attempt,             \* the loop index of infer_types_sync
  api_calls,           \* the outcomes of the API calls infer_types_sync made
  sleeps,              \* the delays infer_types_sync slept, in order
  step,                \* the position of import_csv
  import_state         \* the ImportState import_csv holds in memory

vars == <<sample, chunk_size, use_smart_chunking, use_fallback, entry, phase,
          chunks, tasks, results, all_inferred_types, failed_chunks, schema,
          arg, ret, state_file, temp_file, pc, faults,
          attempt, api_calls, sleeps, step, import_state>>

\* the variables of a single call
call_vars == <<arg, ret>>

\* the files of the StateManager and the save under way
file_vars == <<state_file, temp_file, pc, faults>>

\* a path with no file, and a file holding the first `written' of the
\* JsonParts pieces in which json.dump writes the state
Absent == [exists |-> FALSE]
FileContent(state, written) == [exists |-> TRUE, state |-> state, written |-> written]

\* no save_state under way, no state file yet
NoSave ==
  /\ state_file = Absent
  /\ temp_file = Absent
  /\ pc = "idle"
  /\ faults = {}

\* the loop of infer_types_sync
retry_vars == <<attempt, api_calls, sleeps>>

\* no infer_types_sync under way
NoRetry ==
  /\ attempt = 0
  /\ api_calls = <<>>
  /\ sleeps = <<>>

\* import_csv
import_vars == <<step, import_state>>

\* no import_csv under way
NoImport ==
  /\ step = "none"
  /\ import_state = None

NoSchema == TableSchema(None, <<>>, None)

Pending == [state |-> "pending", value |-> <<>>]
Failed == [state |-> "exception", value |-> <<>>]
Succeeded(value) == [state |-> "ok", value |-> value]

\* the state of a single call: not made, returned a value, raised an exception
NotCalled == [status |-> "none", value |-> None]
Returned(value) == [status |-> "returned", value |-> value]
Raised(exception) == [status |-> "raised", value |-> exception]

Init ==
  /\ sample \in { CSVSample(cols) : cols \in ColumnLists }
  /\ chunk_size \in 1..MaxChunkSize
  /\ use_smart_chunking \in BOOLEAN
  /\ use_fallback \in BOOLEAN
  /\ entry \in {"async", "heuristic"}
  /\ phase = IF entry = "async" THEN "CHUNKING" ELSE "HEURISTIC"
  /\ chunks = <<>>
  /\ tasks = <<>>
  /\ results = <<>>
  /\ all_inferred_types = <<>>
  /\ failed_chunks = <<>>
  /\ schema = NoSchema
  /\ arg = None
  /\ ret = NotCalled
  /\ NoSave
  /\ NoRetry
  /\ NoImport

(***************************************************************************)
(* infer_schema_async, step by step.                                       *)
(***************************************************************************)
\* chunks = chunk_columns_smart(...) or chunk_columns(...);
\* tasks = [provider.infer_types(chunk) for chunk in chunks]
Chunk ==
  /\ phase = "CHUNKING"
  /\ IF chunker_raises(sample.headers)
     THEN /\ phase' = "FAILED"
          /\ UNCHANGED <<chunks, tasks>>
     ELSE /\ chunks' = IF use_smart_chunking
                       THEN chunk_columns_smart(sample.headers, chunk_size)
                       ELSE chunk_columns(sample.headers, chunk_size)
          /\ tasks' = [k \in DOMAIN chunks' |-> Pending]
          /\ phase' = "DISPATCHING"
  /\ UNCHANGED <<sample, chunk_size, use_smart_chunking, use_fallback, entry,
                 results, all_inferred_types, failed_chunks, schema>>
  /\ UNCHANGED call_vars
  /\ UNCHANGED retry_vars
  /\ UNCHANGED import_vars
  /\ UNCHANGED file_vars

\* one request returns its list of InferredType
TaskSucceed(k) ==
  /\ phase = "DISPATCHING"
  /\ tasks[k].state = "pending"
  /\ \E style \in ReplyStyles :
       tasks' = [tasks EXCEPT ![k] = Succeeded(LLMReply(chunks[k], style))]
  /\ UNCHANGED <<sample, chunk_size, use_smart_chunking, use_fallback, entry,
                 phase, chunks, results, all_inferred_types, failed_chunks, schema>>
  /\ UNCHANGED call_vars
  /\ UNCHANGED retry_vars
  /\ UNCHANGED import_vars
  /\ UNCHANGED file_vars

\* one request raises
TaskFail(k) ==
  /\ phase = "DISPATCHING"
  /\ tasks[k].state = "pending"
  /\ tasks' = [tasks EXCEPT ![k] = Failed]
  /\ UNCHANGED <<sample, chunk_size, use_smart_chunking, use_fallback, entry,
                 phase, chunks, results, all_inferred_types, failed_chunks, schema>>
  /\ UNCHANGED call_vars
  /\ UNCHANGED retry_vars
  /\ UNCHANGED import_vars
  /\ UNCHANGED file_vars

\* gather called without return_exceptions
return_exceptions_default == FALSE

\* asyncio.gather(*tasks, return_exceptions=True)
return_exceptions == TRUE

\* a gather that never returns once a request has failed
gather_stalls(ts) ==
  IF \E k \in DOMAIN ts : ts[k].state # "ok" THEN "wait" ELSE "return"

\* what `await asyncio.gather(...)' does in the current state of the tasks:
\* with return_exceptions it waits for every task and returns the results and
\* the exceptions as one list; without, the first exception of a task is
\* raised to the awaiter at once, the other tasks running on
gather(ts) ==
  IF ~return_exceptions /\ \E k \in DOMAIN ts : ts[k].state = "exception"
  THEN "raise"
  ELSE IF \E k \in DOMAIN ts : ts[k].state = "pending"
  THEN "wait"
  ELSE "return"

\* the try/except around the await
Gather ==
  /\ phase = "DISPATCHING"
  /\ gather(tasks) # "wait"
  /\ IF gather(tasks) = "raise"
     THEN IF use_fallback
          THEN IF infer_schema_heuristic_raises(sample)
               THEN phase' = "FAILED" /\ UNCHANGED <<results, schema>>
               ELSE /\ phase' = "DONE"
                    /\ schema' = infer_schema_heuristic(sample)
                    /\ UNCHANGED results
          ELSE phase' = "FAILED" /\ UNCHANGED <<results, schema>>
     ELSE /\ results' = tasks
          /\ phase' = "MERGING"
          /\ UNCHANGED schema
  /\ UNCHANGED <<sample, chunk_size, use_smart_chunking, use_fallback, entry,
                 chunks, tasks, all_inferred_types, failed_chunks>>
  /\ UNCHANGED call_vars
  /\ UNCHANGED retry_vars
  /\ UNCHANGED import_vars
  /\ UNCHANGED file_vars

RECURSIVE Flatten(_)
Flatten(seqs) == IF seqs = <<>> THEN <<>> ELSE Head(seqs) \o Flatten(Tail(seqs))

\* a merge that takes the results from the last chunk to the first
merged_types_reversed(rs) ==
  Flatten([k \in DOMAIN rs |->
             IF rs[Len(rs) + 1 - k].state = "exception" THEN <<>>
             ELSE rs[Len(rs) + 1 - k].value])

\* the loop over enumerate(results)
merged_types(rs) ==
  Flatten([k \in DOMAIN rs |-> IF rs[k].state = "exception" THEN <<>> ELSE rs[k].value])

RECURSIVE merged_failed(_, _, _)
merged_failed(cs, rs, k) ==
  IF k > Len(rs) THEN <<>>
  ELSE (IF rs[k].state = "exception" THEN <<cs[k]>> ELSE <<>>)
       \o merged_failed(cs, rs, k + 1)

\* the column samples the fallback loop classifies, in its order: for every
\* column of every failed chunk, the entry of sample_map under that name, when
\* there is one
fallback_samples(failed, smp) ==
  LET column_samples == build_column_samples(smp)
      names == Flatten([c \in DOMAIN failed |-> failed[c].columns])
      found == SelectSeq(names, LAMBDA col_name : InSampleMap(column_samples, col_name))
  IN  [k \in DOMAIN found |-> SampleMapGet(column_samples, found[k])]

\* the fallback run whatever use_fallback says
fallback_always(failed, use_fb) == failed # <<>>

\* if failed_chunks and use_fallback:
fallback_applies(failed, use_fb) == failed # <<>> /\ use_fb

\* "Merge results" and "Handle failed chunks with heuristic fallback"
Merge ==
  /\ phase = "MERGING"
  /\ LET failed == merged_failed(chunks, results, 1)
         from_llm == merged_types(results)
         todo == IF fallback_applies(failed, use_fallback)
                 THEN fallback_samples(failed, sample) ELSE <<>>
     IN  /\ failed_chunks' = failed
         /\ IF \E k \in DOMAIN todo : heuristic_raises(todo[k])
            THEN /\ phase' = "FAILED"
                 /\ all_inferred_types' = from_llm
            ELSE /\ phase' = "FINALIZING"
                 /\ all_inferred_types' =
                      from_llm \o [k \in DOMAIN todo |-> heuristic_type_inference(todo[k])]
  /\ UNCHANGED <<sample, chunk_size, use_smart_chunking, use_fallback, entry,
                 chunks, tasks, results, schema>>
  /\ UNCHANGED call_vars
  /\ UNCHANGED retry_vars
  /\ UNCHANGED import_vars
  /\ UNCHANGED file_vars

\* "Convert to schema", primary key, table name, return
Finalize ==
  /\ phase = "FINALIZING"
  /\ LET columns == to_columns(all_inferred_types)
     IN  schema' = TableSchema(sanitize_column_name(sample.stem), columns,
                               select_primary_key(columns))
  /\ phase' = "DONE"
  /\ UNCHANGED <<sample, chunk_size, use_smart_chunking, use_fallback, entry,
                 chunks, tasks, results, all_inferred_types, failed_chunks>>
  /\ UNCHANGED call_vars
  /\ UNCHANGED retry_vars
  /\ UNCHANGED import_vars
  /\ UNCHANGED file_vars

\* cli.py without a provider: schema = infer_schema_heuristic(sample)
HeuristicOnly ==
  /\ phase = "HEURISTIC"
  /\ IF infer_schema_heuristic_raises(sample)
     THEN phase' = "FAILED" /\ UNCHANGED schema
     ELSE /\ phase' = "DONE"
          /\ schema' = infer_schema_heuristic(sample)
  /\ UNCHANGED <<sample, chunk_size, use_smart_chunking, use_fallback, entry,
                 chunks, tasks, results, all_inferred_types, failed_chunks>>
  /\ UNCHANGED call_vars
  /\ UNCHANGED retry_vars
  /\ UNCHANGED import_vars
  /\ UNCHANGED file_vars

\* some outstanding request resolves
RequestSucceeds == \E k \in DOMAIN tasks : TaskSucceed(k)
RequestFails == \E k \in DOMAIN tasks : TaskFail(k)

Next ==
  \/ Chunk
  \/ RequestSucceeds
  \/ RequestFails
  \/ Gather
  \/ Merge
  \/ Finalize
  \/ HeuristicOnly

Spec == Init /\ [][Next]_vars

(***************************************************************************)
(* The scheduling of a run: the code of infer_schema_async runs on, and    *)
(* every request to the capability resolves.  Weak fairness of an action A *)
(* is []<>~ENABLED <<A>>_vars \/ []<><<A>>_vars.  Chunk, Merge, Finalize    *)
(* and HeuristicOnly are enabled exactly in their phase (past the test of  *)
(* the phase each is an IF/THEN/ELSE of assignments, and each changes      *)
(* phase), and their fairness is written out with the phase as enabling    *)
(* condition.                                                              *)
(***************************************************************************)
FairSpec ==
  /\ Init /\ [][Next]_vars
  /\ ([]<>(phase # "CHUNKING") \/ []<><<Chunk>>_vars)
  /\ WF_vars(RequestSucceeds \/ RequestFails)
  /\ WF_vars(Gather)
  /\ ([]<>(phase # "MERGING") \/ []<><<Merge>>_vars)
  /\ ([]<>(phase # "FINALIZING") \/ []<><<Finalize>>_vars)
  /\ ([]<>(phase # "HEURISTIC") \/ []<><<HeuristicOnly>>_vars)

(***************************************************************************)
(* Single calls of the functions of inference.py, outside a run.           *)
(***************************************************************************)
\* most cells of the column sample of a single call
MaxCells == 2

run_vars == <<sample, chunk_size, use_smart_chunking, use_fallback, entry, phase,
              chunks, tasks, results, all_inferred_types, failed_chunks, schema>>

\* no run of infer_schema_async or infer_schema_heuristic
NoRun ==
  /\ sample = CSVSample(<<>>)
  /\ chunk_size = 1
  /\ use_smart_chunking = FALSE
  /\ use_fallback = FALSE
  /\ entry = "none"
  /\ phase = "NONE"
  /\ chunks = <<>>
  /\ tasks = <<>>
  /\ results = <<>>
  /\ all_inferred_types = <<>>
  /\ failed_chunks = <<>>
  /\ schema = NoSchema

\* the cells a ColumnSample is made of: None, blank, 'nan', 'inf', signed,
\* grouped and long digit strings, the ends of the 32-bit range and their
\* neighbours, a decimal, boolean tokens, a UUID, a date, a timestamp, an
\* e-mail address, a word
CellPool ==
  { None,
    <<" ">>,
    <<"n","a","n">>,
    <<"i","n","f">>,
    <<"-","7">>,
    <<"+","1","_","0","0","0">>,
    <<"2","1","4","7","4","8","3","6","4","8">>,
    <<"9","9","9","9","9","9","9","9","9","9","9","9","9","9","9","9","9","9","9","9">>,
    <<"1",".","5">>,
    <<"t","r","u","e">>,
    <<"1">>,
    <<"0">>,
    <<"2","1","4","7","4","8","3","6","4","7">>,
    <<"-","2","1","4","7","4","8","3","6","4","8">>,
    <<"-","2","1","4","7","4","8","3","6","4","9">>,
    <<"2","0","2","4","-","0","1","-","0","5">>,
    <<"2","0","2","4","-","0","1","-","0","5","T","1","0",":","0","0",":","0","0">>,
    <<"a","@","b",".","c","o">>,
    UUID1,
    <<"x">> }

ColumnNames == { <<"c">>, <<"p","r","i","c","e">> }

\* ColumnSample(name, values, null_count, total_count) as build_column_samples
\* fills it
ColumnSamples ==
  { [name |-> n, values |-> vs, null_count |-> CountNull(vs), total_count |-> Len(vs)] :
      n \in ColumnNames, vs \in UNION { [1..k -> CellPool] : k \in 0..MaxCells } }

ClassifierInit ==
  /\ NoRun
  /\ NoSave
  /\ NoRetry
  /\ NoImport
  /\ arg \in ColumnSamples
  /\ ret = NotCalled

\* ret = heuristic_type_inference(arg)
Classify ==
  /\ ret.status = "none"
  /\ ret' = IF heuristic_raises(arg) THEN Raised("OverflowError")
            ELSE Returned(heuristic_type_inference(arg))
  /\ UNCHANGED arg
  /\ UNCHANGED run_vars
  /\ UNCHANGED retry_vars
  /\ UNCHANGED import_vars
  /\ UNCHANGED file_vars

ClassifierSpec == ClassifierInit /\ [][Classify]_vars

\* longest name drawn from NameChars
MaxNameLen == 5

\* an upper and a lower case letter (of the keyword 'as'), a digit, the
\* underscore and a special character
NameChars == {"a", "S", "1", "_", "."}

\* every string over NameChars of at most MaxNameLen characters, and some
\* longer names
NamePool ==
  UNION { [1..n -> NameChars] : n \in 0..MaxNameLen }
  \cup { <<"s","e","l","e","c","t">>,
         <<"C","u","r","r","e","n","t","_","D","a","t","e">>,
         <<"H","e","l","l","o"," ","W","o","r","l","d">>,
         <<"u","s","e","r">>,
         <<"2","0","2","4">> }

SanitizerInit ==
  /\ NoRun
  /\ NoSave
  /\ NoRetry
  /\ NoImport
  /\ arg \in NamePool
  /\ ret = NotCalled

\* ret = sanitize_column_name(arg)
Sanitize ==
  /\ ret.status = "none"
  /\ ret' = Returned(sanitize_column_name(arg))
  /\ UNCHANGED arg
  /\ UNCHANGED run_vars
  /\ UNCHANGED retry_vars
  /\ UNCHANGED import_vars
  /\ UNCHANGED file_vars

SanitizerSpec == SanitizerInit /\ [][Sanitize]_vars

(***************************************************************************)
(* state_manager.py: StateManager.save_state, one file operation at a      *)
(* time.  A file operation named in faults raises OSError when it is       *)
(* attempted.                                                              *)
(***************************************************************************)
\* the pieces in which json.dump writes one state
JsonParts == 2

FileOps == {"mkdir", "mkstemp", "write", "rename", "unlink"}

\* ImportState: the fields that tell one saved state from another
ImportState(csv_path, csv_checksum, import_status, import_phase) ==
  [csv_path |-> csv_path, csv_checksum |-> csv_checksum,
   status |-> import_status, phase |-> import_phase]

\* the states handed to save_state
SavedStates ==
  { ImportState("data.csv", "sha-1", "pending", "sampling"),
    ImportState("data.csv", "sha-1", "in_progress", "sampled"),
    ImportState("data.csv", "sha-1", "failed", "failed") }

SaveInit ==
  /\ NoRun
  /\ NoSave
  /\ NoRetry
  /\ NoImport
  /\ arg = None
  /\ ret = NotCalled

\* save_state(state) is called; this save has no temporary file yet (one left
\* behind by an earlier save lies under another name and is not touched again)
SaveStart ==
  /\ pc = "idle"
  /\ \E state \in SavedStates : arg' = state
  /\ \E F \in SUBSET FileOps : faults' = F
  /\ ret' = NotCalled
  /\ pc' = "mkdir"
  /\ temp_file' = Absent
  /\ UNCHANGED state_file
  /\ UNCHANGED run_vars
  /\ UNCHANGED retry_vars
  /\ UNCHANGED import_vars

\* self.state_file.parent.mkdir(parents=True, exist_ok=True)
Mkdir ==
  /\ pc = "mkdir"
  /\ IF "mkdir" \in faults
     THEN pc' = "idle" /\ ret' = Raised("OSError")
     ELSE pc' = "mkstemp" /\ UNCHANGED ret
  /\ UNCHANGED <<arg, state_file, temp_file, faults>>
  /\ UNCHANGED run_vars
  /\ UNCHANGED retry_vars
  /\ UNCHANGED import_vars

\* temp_fd, temp_path = tempfile.mkstemp(dir=self.state_file.parent, suffix=".tmp"):
\* a new empty file under a name of its own, outside the try
Mkstemp ==
  /\ pc = "mkstemp"
  /\ IF "mkstemp" \in faults
     THEN pc' = "idle" /\ ret' = Raised("OSError") /\ UNCHANGED temp_file
     ELSE pc' = "write" /\ temp_file' = FileContent(arg, 0) /\ UNCHANGED ret
  /\ UNCHANGED <<arg, state_file, faults>>
  /\ UNCHANGED run_vars
  /\ UNCHANGED retry_vars
  /\ UNCHANGED import_vars

\* json.dump(state_dict, f, indent=2): one more piece reaches the temporary file
WritePiece ==
  /\ pc = "write"
  /\ temp_file.written < JsonParts
  /\ temp_file' = [temp_file EXCEPT !.written = @ + 1]
  /\ UNCHANGED <<arg, ret, state_file, pc, faults>>
  /\ UNCHANGED run_vars
  /\ UNCHANGED retry_vars
  /\ UNCHANGED import_vars

\* a write, or the flush when the with block closes the file, raises: the
\* except clause is entered
WriteFails ==
  /\ pc = "write"
  /\ "write" \in faults
  /\ pc' = "cleanup"
  /\ UNCHANGED <<arg, ret, state_file, temp_file, faults>>
  /\ UNCHANGED run_vars
  /\ UNCHANGED retry_vars
  /\ UNCHANGED import_vars

\* json.dump returned before the state was written out whole
dump_cut_short(f) == TRUE

\* the with block is left normally: every piece is written and the file closed
dump_finished(f) == f.written = JsonParts

WriteDone ==
  /\ pc = "write"
  /\ "write" \notin faults
  /\ dump_finished(temp_file)
  /\ pc' = "rename"
  /\ UNCHANGED <<arg, ret, state_file, temp_file, faults>>
  /\ UNCHANGED run_vars
  /\ UNCHANGED retry_vars
  /\ UNCHANGED import_vars

\* Path(temp_path).rename(self.state_file): the temporary file takes the
\* place of the state file in one step, or the call raises and changes nothing
Rename ==
  /\ pc = "rename"
  /\ IF "rename" \in faults
     THEN pc' = "cleanup" /\ UNCHANGED <<ret, state_file, temp_file>>
     ELSE /\ state_file' = temp_file
          /\ temp_file' = Absent
          /\ pc' = "idle"
          /\ ret' = Returned(None)
  /\ UNCHANGED <<arg, faults>>
  /\ UNCHANGED run_vars
  /\ UNCHANGED retry_vars
  /\ UNCHANGED import_vars

\* except Exception as e: try: Path(temp_path).unlink() except Exception: pass;
\* raise e
Cleanup ==
  /\ pc = "cleanup"
  /\ temp_file' = IF "unlink" \in faults THEN temp_file ELSE Absent
  /\ pc' = "idle"
  /\ ret' = Raised("OSError")
  /\ UNCHANGED <<arg, state_file, faults>>
  /\ UNCHANGED run_vars
  /\ UNCHANGED retry_vars
  /\ UNCHANGED import_vars

SaveNext ==
  \/ SaveStart
  \/ Mkdir
  \/ Mkstemp
  \/ WritePiece
  \/ WriteFails
  \/ WriteDone
  \/ Rename
  \/ Cleanup

SaveSpec == SaveInit /\ [][SaveNext]_vars

(***************************************************************************)
(* llm/gemini.py: GeminiProvider.infer_types_sync, one API call at a time. *)
(* arg holds the provider's retry_attempts and retry_delay.                *)
(***************************************************************************)
\* the largest retry_attempts tried (config.py allows 0..10)
MaxAttempts == 4

\* the values of retry_delay tried (config.py allows 1..60; 5 is the default)
RetryDelays == {1, 5}

\* what one pass through the try block ends in: the parsed list of types, or
\* an exception of generate_content, "Empty response from Gemini API", an
\* exception of json.loads or of the conversion, "Parsed response is empty"
CallOutcomes == {"types", "api_error", "no_text", "bad_json", "empty_list"}

RetryInit ==
  /\ NoRun
  /\ NoSave
  /\ NoRetry
  /\ NoImport
  /\ arg \in [retry_attempts : 0..MaxAttempts, retry_delay : RetryDelays]
  /\ ret = NotCalled

\* a delay that does not grow
constant_delay(retry_delay, k) == retry_delay

\* delay = self.retry_delay * (2**attempt)
backoff_delay(retry_delay, k) == retry_delay * 2^k

\* the try block reaches `return inferred_types'
ApiCallSucceeds ==
  /\ ret.status = "none"
  /\ attempt < arg.retry_attempts
  /\ api_calls' = Append(api_calls, "types")
  /\ ret' = Returned(<<"types">>)
  /\ UNCHANGED <<arg, attempt, sleeps>>
  /\ UNCHANGED run_vars
  /\ UNCHANGED file_vars
  /\ UNCHANGED import_vars

\* the try block raises: except Exception, the sleep unless this was the last
\* attempt, and the next turn of the loop
ApiCallFails ==
  /\ ret.status = "none"
  /\ attempt < arg.retry_attempts
  /\ \E outcome \in CallOutcomes \ {"types"} :
       api_calls' = Append(api_calls, outcome)
  /\ sleeps' = IF attempt < arg.retry_attempts - 1
               THEN Append(sleeps, backoff_delay(arg.retry_delay, attempt))
               ELSE sleeps
  /\ attempt' = attempt + 1
  /\ UNCHANGED <<arg, ret>>
  /\ UNCHANGED run_vars
  /\ UNCHANGED file_vars
  /\ UNCHANGED import_vars

\* the loop is over: raise Exception("Failed to infer types after ...")
RetriesExhausted ==
  /\ ret.status = "none"
  /\ attempt >= arg.retry_attempts
  /\ ret' = Raised("Exception")
  /\ UNCHANGED <<arg, attempt, api_calls, sleeps>>
  /\ UNCHANGED run_vars
  /\ UNCHANGED file_vars
  /\ UNCHANGED import_vars

RetryNext ==
  \/ ApiCallSucceeds
  \/ ApiCallFails
  \/ RetriesExhausted

RetrySpec == RetryInit /\ [][RetryNext]_vars

(***************************************************************************)
(* cli.py: import_csv, from create_initial_state to the end of the try     *)
(* block.  The three steps (sample_csv, the schema inference, generate_all)*)
(* return or raise; every save_state runs as the file operations above.    *)
(***************************************************************************)
\* the state file an earlier run left under the same name, if any
EarlierStateFiles ==
  {Absent} \cup { FileContent(s, JsonParts) : s \in SavedStates }

ImportInit ==
  /\ NoRun
  /\ NoRetry
  /\ arg = None
  /\ ret = NotCalled
  /\ state_file \in EarlierStateFiles
  /\ temp_file = Absent
  /\ pc = "idle"
  /\ faults = {}
  /\ step = "create"
  /\ import_state = None

\* the positions at which a step runs, and the position that follows its return
StepDone ==
  [sample |-> "mark_sampled", infer |-> "mark_inferred", generate |-> "mark_generated"]

\* the position that follows a mark_phase_complete
AfterMark ==
  [mark_sampled |-> "infer", mark_inferred |-> "generate", mark_generated |-> "done"]

\* a marking that records the inference when the sampling is done
completed_phase_early(at) ==
  [mark_sampled |-> "inferred", mark_inferred |-> "inferred",
   mark_generated |-> "generated"][at]

\* the ImportPhase handed to mark_phase_complete at each position
completed_phase(at) ==
  [mark_sampled |-> "sampled", mark_inferred |-> "inferred",
   mark_generated |-> "generated"][at]

\* state = state_manager.create_initial_state(csv_path, table_name), or
\* compute_file_checksum raises
CreateInitialState ==
  /\ step = "create"
  /\ \/ /\ import_state' = ImportState("data.csv", "sha-1", "pending", "sampling")
        /\ step' = "sample"
     \/ /\ step' = "exit"
        /\ UNCHANGED import_state
  /\ UNCHANGED run_vars
  /\ UNCHANGED call_vars
  /\ UNCHANGED file_vars
  /\ UNCHANGED retry_vars

\* sample_csv, infer_schema_heuristic or infer_schema_sync, generate_all returns
StepReturns ==
  /\ step \in DOMAIN StepDone
  /\ step' = StepDone[step]
  /\ UNCHANGED import_state
  /\ UNCHANGED run_vars
  /\ UNCHANGED call_vars
  /\ UNCHANGED file_vars
  /\ UNCHANGED retry_vars

\* the step raises: except Exception, raise typer.Exit(code=1)
StepRaises ==
  /\ step \in DOMAIN StepDone
  /\ step' = "exit"
  /\ UNCHANGED import_state
  /\ UNCHANGED run_vars
  /\ UNCHANGED call_vars
  /\ UNCHANGED file_vars
  /\ UNCHANGED retry_vars

\* mark_phase_complete: state.mark_phase(phase), then save_state(state) begins
MarkPhaseComplete ==
  /\ step \in DOMAIN AfterMark
  /\ pc = "idle" /\ ret.status = "none"
  /\ import_state' = [import_state EXCEPT !.phase = completed_phase(step)]
  /\ arg' = import_state'
  /\ \E F \in SUBSET FileOps : faults' = F
  /\ pc' = "mkdir"
  /\ temp_file' = Absent
  /\ UNCHANGED <<ret, state_file, step>>
  /\ UNCHANGED run_vars
  /\ UNCHANGED retry_vars

\* save_state returned: mark_phase_complete returns the state
SaveReturns ==
  /\ step \in DOMAIN AfterMark
  /\ pc = "idle" /\ ret.status = "returned"
  /\ step' = AfterMark[step]
  /\ ret' = NotCalled
  /\ UNCHANGED <<arg, import_state>>
  /\ UNCHANGED file_vars
  /\ UNCHANGED run_vars
  /\ UNCHANGED retry_vars

\* save_state raised: except Exception, raise typer.Exit(code=1)
SaveRaises ==
  /\ step \in DOMAIN AfterMark
  /\ pc = "idle" /\ ret.status = "raised"
  /\ step' = "exit"
  /\ UNCHANGED <<arg, ret, import_state>>
  /\ UNCHANGED file_vars
  /\ UNCHANGED run_vars
  /\ UNCHANGED retry_vars

ImportNext ==
  \/ CreateInitialState
  \/ StepReturns
  \/ StepRaises
  \/ MarkPhaseComplete
  \/ SaveReturns
  \/ SaveRaises
  \/ Mkdir
  \/ Mkstemp
  \/ WritePiece
  \/ WriteFails
  \/ WriteDone
  \/ Rename
  \/ Cleanup

ImportSpec == ImportInit /\ [][ImportNext]_vars

(***************************************************************************)
(* state_manager.py: StateManager.can_resume.  arg holds the state, the    *)
(* csv_path argument and what compute_file_checksum(csv_path) does.        *)
(***************************************************************************)
ImportStatuses == {"pending", "in_progress", "completed", "failed"}

ImportPhases ==
  {"sampling", "sampled", "inferring", "inferred", "generating", "generated",
   "importing", "completed", "failed"}

CsvPaths == {"data.csv", "other.csv"}

\* compute_file_checksum(csv_path) returns a digest or raises
ChecksumOutcomes == {Returned("sha-1"), Returned("sha-2"), Raised("OSError")}

ResumeInit ==
  /\ NoRun
  /\ NoSave
  /\ NoRetry
  /\ NoImport
  /\ arg \in [state : { ImportState(p, "sha-1", st, ph) :
                          p \in CsvPaths, st \in ImportStatuses, ph \in ImportPhases },
              csv_path : CsvPaths,
              current_checksum : ChecksumOutcomes]
  /\ ret = NotCalled

\* a test that lets every state that is not completed resume
can_resume_unfinished(saved, csv_path, current_checksum) ==
  IF saved.status = "completed" THEN <<FALSE, "Import already completed">>
  ELSE IF saved.csv_path # csv_path THEN <<FALSE, "CSV path mismatch">>
  ELSE IF current_checksum.status = "raised" THEN <<FALSE, "Failed to verify CSV">>
  ELSE IF current_checksum.value # saved.csv_checksum
  THEN <<FALSE, "CSV file has changed (checksum mismatch)">>
  ELSE <<TRUE, "Can resume">>

\* the (can_resume, reason) pair; reason holds the fixed text of the message
can_resume(saved, csv_path, current_checksum) ==
  IF saved.status = "completed" THEN <<FALSE, "Import already completed">>
  ELSE IF saved.csv_path # csv_path THEN <<FALSE, "CSV path mismatch">>
  ELSE IF current_checksum.status = "raised" THEN <<FALSE, "Failed to verify CSV">>
  ELSE IF current_checksum.value # saved.csv_checksum
  THEN <<FALSE, "CSV file has changed (checksum mismatch)">>
  ELSE IF saved.status = "failed" THEN <<TRUE, "Can resume from failed state">>
  ELSE IF saved.status = "in_progress"
  THEN <<TRUE, "Can resume from in-progress state">>
  ELSE <<FALSE, "Unknown state">>

\* ret = state_manager.can_resume(state, csv_path)
CanResume ==
  /\ ret.status = "none"
  /\ ret' = Returned(can_resume(arg.state, arg.csv_path, arg.current_checksum))
  /\ UNCHANGED arg
  /\ UNCHANGED run_vars
  /\ UNCHANGED file_vars
  /\ UNCHANGED retry_vars
  /\ UNCHANGED import_vars

ResumeSpec == ResumeInit /\ [][CanResume]_vars

(***************************************************************************)
(* Properties.                                                             *)
(***************************************************************************)
Terminal == {"DONE", "FAILED"}
SomeFailed == \E k \in DOMAIN tasks : tasks[k].state = "exception"
SomeSucceeded == \E k \in DOMAIN tasks : tasks[k].state = "ok"
AllFailed == tasks # <<>> /\ \A k \in DOMAIN tasks : tasks[k].state = "exception"
NonePending == \A k \in DOMAIN tasks : tasks[k].state # "pending"

\* C1: with use_fallback and at least one failed chunk, the TableSchema that
\* infer_schema_async returns has exactly one column per input header.
C1_FallbackKeepsEveryColumn ==
  (entry = "async" /\ phase = "DONE" /\ use_fallback /\ SomeFailed
     /\ sample.headers # <<>>)
  => Len(schema.columns) = Len(sample.headers)

\* the columns of all chunks, in chunk order
ChunkedColumns == Flatten([k \in DOMAIN chunks |-> chunks[k].columns])

\* how often x occurs in s
Occurrences(s, x) == Cardinality({ i \in DOMAIN s : s[i] = x })

\* C2: for a non-empty list of distinct headers and chunk_size >= 1, the chunks
\* returned by chunk_columns and chunk_columns_smart hold every header exactly
\* once.
C2_ChunksHoldEveryHeaderOnce ==
  (entry = "async" /\ phase # "CHUNKING" /\ sample.headers # <<>>)
  => /\ chunks # <<>>
     /\ Len(ChunkedColumns) = Len(sample.headers)
     /\ \A h \in Range(sample.headers) : Occurrences(ChunkedColumns, h) = 1

\* smart chunking gathered a prefix group across a header of another group
C2_Witness ==
  /\ phase = "DISPATCHING" /\ use_smart_chunking /\ chunk_size = 2
  /\ Len(sample.headers) = 3 /\ Len(chunks) = 2
  /\ column_prefix(sample.headers[1]) = column_prefix(sample.headers[3])
  /\ column_prefix(sample.headers[1]) # column_prefix(sample.headers[2])

\* C3: without fallback, when the request of every chunk fails the run ends
\* in failure and returns no TableSchema.
C3_AllFailedNoFallbackRaises ==
  (entry = "async" /\ ~use_fallback /\ AllFailed) => phase # "DONE"

\* the InferredType of the requests that succeeded, in chunk order
SucceededReplies ==
  Flatten([k \in DOMAIN tasks |->
             IF tasks[k].state = "ok" THEN tasks[k].value ELSE <<>>])

\* C4: without fallback, when some but not all requests fail the run does not
\* raise, and the columns returned are exactly the results of the chunks that
\* succeeded: nothing stands for a column of a failed chunk.
C4_PartialResultsWithoutFallback ==
  (entry = "async" /\ ~use_fallback /\ SomeFailed /\ SomeSucceeded)
  => /\ phase # "FAILED"
     /\ phase = "DONE" =>
          /\ Len(schema.columns) = Len(SucceededReplies)
          /\ \A i \in DOMAIN schema.columns :
               /\ schema.columns[i].name = SucceededReplies[i].column_name
               /\ schema.columns[i].pg_type = SucceededReplies[i].pg_type
               /\ schema.columns[i].nullable = SucceededReplies[i].nullable
               /\ schema.columns[i].constraints = SucceededReplies[i].constraints
               /\ schema.columns[i].cast_rule = SucceededReplies[i].cast_rule

C4_Witness ==
  /\ entry = "async" /\ phase = "DONE" /\ ~use_fallback
  /\ SomeFailed /\ SomeSucceeded
  /\ schema.columns # <<>> /\ Len(schema.columns) < Len(sample.headers)

\* C5: with use_fallback and a non-empty header list a run never ends FAILED,
\* whatever requests fail; FAILED needs use_fallback off and every request
\* failed.
C5_FallbackNeverFails ==
  (entry = "async" /\ sample.headers # <<>> /\ phase = "FAILED")
  => (~use_fallback /\ AllFailed)

\* C6: the merge starts only when every request has resolved; a failed request
\* neither cancels nor cuts short the others, and the run goes past the
\* dispatch (to merge, to the result or to failure) with no request pending.
C6_MergeAfterEveryRequest ==
  (entry = "async" /\ phase \in {"MERGING", "FINALIZING", "DONE", "FAILED"})
  => /\ NonePending
     /\ Len(tasks) = Len(chunks)
     /\ phase # "FAILED" => results = tasks
     /\ all_inferred_types # <<>> => NonePending

C6_Witness ==
  /\ phase = "MERGING" /\ Len(tasks) = 3
  /\ tasks[1].state = "exception" /\ tasks[2].state = "ok" /\ tasks[3].state = "ok"

PhaseOrder ==
  { <<"CHUNKING", "DISPATCHING">>, <<"DISPATCHING", "MERGING">>,
    <<"MERGING", "FINALIZING">>, <<"FINALIZING", "DONE">> }

\* a step of infer_schema_async stays in its phase, moves to the next phase
\* or ends the run in failure; a terminal phase is never left
PhaseStep ==
  entry = "async" =>
    \/ phase' = phase
    \/ <<phase, phase'>> \in PhaseOrder
    \/ phase \notin Terminal /\ phase' = "FAILED"

\* C7: when every request resolves, a run of infer_schema_async reaches DONE
\* (with a TableSchema) or FAILED, going through CHUNKING, DISPATCHING,
\* MERGING, FINALIZING in that order and never back.
C7_RunEndsThroughPhasesInOrder ==
  /\ (entry = "async") => <>(phase \in Terminal)
  /\ [][PhaseStep]_vars
  /\ [](phase = "DONE" => schema # NoSchema)

C7_Witness ==
  /\ entry = "async" /\ phase = "DONE" /\ use_fallback
  /\ Len(tasks) = 2 /\ tasks[1].state = "ok" /\ tasks[2].state = "exception"
  /\ Len(schema.columns) = Len(sample.headers)

\* C8: a TableSchema returned for pairwise distinct raw headers has pairwise
\* distinct column names.
C8_DistinctColumnNames ==
  phase = "DONE" =>
    \A i \in DOMAIN schema.columns : \A j \in DOMAIN schema.columns :
      schema.columns[i].name = schema.columns[j].name => i = j

\* C9: in a returned TableSchema primary_key is null or the name of one of
\* its columns.
C9_PrimaryKeyIsAColumn ==
  phase = "DONE" =>
    \/ schema.primary_key = None
    \/ \E i \in DOMAIN schema.columns : schema.columns[i].name = schema.primary_key

\* a key chosen among columns whose names the provider echoed in upper case
C9_Witness ==
  /\ entry = "async" /\ phase = "DONE"
  /\ schema.primary_key # None
  /\ Lower(schema.primary_key) # schema.primary_key

\* the priority table as the claim states it (the lowest row that applies;
\* names compared in lower case, as the code compares them)
ClaimedScore(col) ==
  LET n == Lower(col.name)
  IN  IF col.pg_type = "uuid" /\ Contains(n, <<"i","d","e","n","t","i","f","i","e","r">>) /\ Contains(n, <<"u","u","i","d">>)
      THEN 0
      ELSE IF col.pg_type = "uuid" /\ n = <<"u","u","i","d">> THEN 1
      ELSE IF col.pg_type = "uuid" /\ Contains(n, <<"u","u","i","d">>) THEN 2
      ELSE IF n = <<"i","d">> THEN 3
      ELSE IF EndsWith(n, <<"_","i","d">>) /\ col.pg_type \in {"integer", "bigint"} THEN 4
      ELSE NoCandidate

\* C10: every final column is scored with the 0-4 table (3: name exactly
\* 'id', whatever its type); primary_key is a column of the lowest score, and
\* null exactly when no column gets a score.
C10_PrimaryKeyHasLowestScore ==
  phase = "DONE" =>
    LET cols == schema.columns
        scored == { i \in DOMAIN cols : ClaimedScore(cols[i]) # NoCandidate }
    IN  /\ schema.primary_key = None <=> scored = {}
        /\ schema.primary_key # None =>
             \E i \in scored :
               /\ cols[i].name = schema.primary_key
               /\ \A j \in scored : ClaimedScore(cols[i]) <= ClaimedScore(cols[j])

\* C11: a final column named exactly 'id' is a candidate whatever its type:
\* when the final columns hold a column named 'id' and none of priority 0, 1
\* or 2, primary_key is 'id'.
C11_IdColumnIsPrimaryKey ==
  phase = "DONE" =>
    LET cols == schema.columns
    IN  ( /\ \E i \in DOMAIN cols : cols[i].name = <<"i","d">>
          /\ \A i \in DOMAIN cols : ClaimedScore(cols[i]) \notin {0, 1, 2} )
        => schema.primary_key = <<"i","d">>

\* C12: heuristic_type_inference is total: called on any ColumnSample it
\* returns an InferredType and never raises.
C12_ClassifierNeverRaises ==
  ret.status # "raised"

\* C13: sanitize_column_name is idempotent: sanitizing its result gives the
\* result again.
C13_SanitizeIdempotent ==
  ret.status = "returned" => sanitize_column_name(ret.value) = ret.value

\* a name with special characters and a run of underscores inside, changed
\* by the call
C13_Witness ==
  /\ ret.status = "returned"
  /\ arg = <<"a","_",".","_","S">>
  /\ ret.value = <<"a","_","s">>

\* C14: the result of sanitize_column_name is non-empty, made of a-z, 0-9
\* and '_' only, does not start with a digit, has no leading or trailing '_'
\* and no two consecutive '_', and is no reserved keyword.
C14_SanitizedIsIdentifier ==
  ret.status = "returned" =>
    LET v == ret.value
    IN  /\ v # <<>>
        /\ \A i \in DOMAIN v : IsLowerAlpha(v[i]) \/ IsDigit(v[i]) \/ v[i] = "_"
        /\ ~IsDigit(v[1])
        /\ v[1] # "_" /\ v[Len(v)] # "_"
        /\ \A i \in 1..(Len(v) - 1) : ~(v[i] = "_" /\ v[i + 1] = "_")
        /\ v \notin POSTGRES_RESERVED_KEYWORDS

\* a name that sanitizes to a reserved keyword, and one that starts with a
\* digit once its leading specials are gone
C14_Witness ==
  /\ ret.status = "returned"
  /\ \/ arg = <<"_","a","S",".">> /\ ret.value = <<"a","s","_","c","o","l">>
     \/ arg = <<".","1","a">> /\ ret.value = <<"c","o","l","_","1","a">>

\* ceil(n / d) for d >= 1: the least N with N * d >= n
CeilDiv(n, d) == CHOOSE N \in 0..n : N * d >= n /\ (N = 0 \/ (N - 1) * d < n)

\* C15: the i-th chunk returned by either chunker has chunk_id = i (from 0)
\* and total_chunks = the number of chunks returned; chunk_columns returns
\* ceil(len(headers) / chunk_size) chunks.
C15_ChunkIdsAndTotals ==
  (entry = "async" /\ phase \notin {"CHUNKING", "FAILED"}) =>
    /\ \A k \in DOMAIN chunks :
         /\ chunks[k].chunk_id = k - 1
         /\ chunks[k].total_chunks = Len(chunks)
    /\ ~use_smart_chunking =>
         Len(chunks) = CeilDiv(Len(sample.headers), chunk_size)

\* three headers in chunks of two: two chunks, the last one short, under
\* either strategy
C15_Witness ==
  /\ phase = "DISPATCHING" /\ Len(sample.headers) = 3 /\ chunk_size = 2
  /\ Len(chunks) = 2
  /\ chunks[2].chunk_id = 1 /\ chunks[2].total_chunks = 2
  /\ Len(chunks[2].columns) = 1

\* C16: on an empty header list both chunkers raise and return no chunks, so
\* a run of infer_schema_async on a sample without headers ends in failure
\* with no chunk and no request.
C16_EmptyHeadersFailBeforeDispatch ==
  (entry = "async" /\ sample.headers = <<>>) =>
    /\ phase \in {"CHUNKING", "FAILED"}
    /\ chunks = <<>> /\ tasks = <<>> /\ results = <<>>
    /\ schema = NoSchema

C16_Witness ==
  /\ entry = "async" /\ sample.headers = <<>> /\ use_smart_chunking
  /\ phase = "FAILED" /\ tasks = <<>>

\* the state file is missing or holds a state written out whole
StateFileWhole ==
  state_file.exists => state_file.written = JsonParts

\* the state file changes only by the rename of the whole new state, with which
\* the save returns; a step that raises leaves it as it was
StateFileStep ==
  /\ state_file' # state_file =>
       /\ state_file' = FileContent(arg, JsonParts)
       /\ ret'.status = "returned"
  /\ ret'.status = "raised" => state_file' = state_file

C18_ColumnNamesAreSanitized ==
  (entry = "async" /\ phase = "DONE")
  => \A i \in DOMAIN schema.columns :
       sanitize_column_name(schema.columns[i].name) = schema.columns[i].name

\* the ColumnSchema that infer_schema_heuristic gives the header h of the
\* sample: the classifier run on the sample of that column
HeuristicColumn(h) ==
  LET i == CHOOSE i \in DOMAIN sample.headers : sample.headers[i] = h
  IN  ColumnSchema(heuristic_type_inference(build_column_samples(sample)[i]))

\* C19: with use_fallback, each column of a failed chunk has in the returned
\* schema the name, type, nullability, constraints and cast rule that
\* heuristic_type_inference gives the sample of that column, which is the
\* ColumnSchema infer_schema_heuristic produces for it.
C19_FallbackEqualsHeuristic ==
  (entry = "async" /\ phase = "DONE" /\ use_fallback)
  => \A k \in DOMAIN chunks :
       tasks[k].state = "exception" =>
         \A j \in DOMAIN chunks[k].columns :
           LET expected == HeuristicColumn(chunks[k].columns[j])
           IN  /\ expected = infer_schema_heuristic(sample).columns[
                     CHOOSE i \in DOMAIN sample.headers :
                       sample.headers[i] = chunks[k].columns[j]]
               /\ \E c \in DOMAIN schema.columns :
                    /\ schema.columns[c].name = expected.name
                    /\ schema.columns[c].pg_type = expected.pg_type
                    /\ schema.columns[c].nullable = expected.nullable
                    /\ schema.columns[c].constraints = expected.constraints
                    /\ schema.columns[c].cast_rule = expected.cast_rule

\* the headers of the chunks whose request failed
FailedHeaders ==
  UNION { Range(chunks[k].columns) :
            k \in { c \in DOMAIN chunks : tasks[c].state = "exception" } }

\* the final columns start with the replies of the succeeded requests, one
\* column per InferredType, in order and field by field unchanged
SucceededRepliesKept ==
  /\ Len(schema.columns) >= Len(SucceededReplies)
  /\ \A i \in DOMAIN SucceededReplies :
       /\ schema.columns[i].name = SucceededReplies[i].column_name
       /\ schema.columns[i].pg_type = SucceededReplies[i].pg_type
       /\ schema.columns[i].nullable = SucceededReplies[i].nullable
       /\ schema.columns[i].constraints = SucceededReplies[i].constraints
       /\ schema.columns[i].cast_rule = SucceededReplies[i].cast_rule

\* every sample the fallback classified is the sample of a header of a failed
\* chunk
FallbackOnlyOnFailedColumns ==
  LET column_samples == build_column_samples(sample)
      classified == fallback_samples(failed_chunks, sample)
  IN  /\ Len(schema.columns) = Len(SucceededReplies)
           + (IF use_fallback THEN Len(classified) ELSE 0)
      /\ use_fallback =>
           \A k \in DOMAIN classified :
             \E i \in DOMAIN sample.headers :
               /\ sample.headers[i] \in FailedHeaders
               /\ column_samples[i].name = classified[k].name
               /\ column_samples[i].values = classified[k].values

\* C20: the fallback leaves the results of succeeded chunks alone: each
\* InferredType a succeeded request returned is exactly one final column, with
\* its name, type, nullability, constraints and cast rule unchanged, and the
\* heuristic classifier runs only on columns of failed chunks.
C20_SucceededChunksUntouched ==
  (entry = "async" /\ phase = "DONE")
  => (SucceededRepliesKept /\ FallbackOnlyOnFailedColumns)

\* the constraints of the InferredType behind column i of the returned schema
InferredConstraints(i) ==
  IF entry = "async" THEN all_inferred_types[i].constraints
  ELSE heuristic_type_inference(build_column_samples(sample)[i]).constraints

\* C21: selecting the primary key leaves the columns as they were: in the
\* TableSchema returned by infer_schema_async and by infer_schema_heuristic
\* every column, the selected one included, has the constraints of its
\* InferredType, and none of them gained 'PRIMARY KEY'.
C21_PrimaryKeyLeavesColumns ==
  phase = "DONE"
  => /\ entry = "async" => Len(schema.columns) = Len(all_inferred_types)
     /\ entry = "heuristic" => Len(schema.columns) = Len(sample.headers)
     /\ \A i \in DOMAIN schema.columns :
          /\ schema.columns[i].constraints = InferredConstraints(i)
          /\ Occurrences(schema.columns[i].constraints, "PRIMARY KEY") = 0

\* a key was selected among columns that carry a constraint of their own
C21_Witness ==
  /\ phase = "DONE" /\ entry = "async" /\ schema.primary_key # None
  /\ \E i \in DOMAIN schema.columns :
       /\ schema.columns[i].name = schema.primary_key
       /\ schema.columns[i].constraints = <<"UNIQUE">>

\* the patterns of the classifier in their order of priority
PatternOrder ==
  <<"uuid", "boolean", "integer", "numeric", "date", "timestamp", "email", "default">>

\* value v matches pattern p
MatchesPattern(p, v) ==
  CASE p = "uuid" -> uuid_pattern(v)
    [] p = "boolean" -> Lower(v) \in boolean_values
    [] p = "integer" -> IsPyInt(v)
    [] p = "numeric" -> IsPyFloat(v)
    [] p = "date" -> date_pattern(v)
    [] p = "timestamp" -> timestamp_pattern(v)
    [] p = "email" -> email_pattern(v)
    [] OTHER -> TRUE

\* the first pattern of the order that every sampled value matches
FirstFullMatch(strs) ==
  PatternOrder[CHOOSE k \in DOMAIN PatternOrder :
                 /\ \A i \in DOMAIN strs : MatchesPattern(PatternOrder[k], strs[i])
                 /\ \A j \in 1..(k - 1) :
                      \E i \in DOMAIN strs : ~MatchesPattern(PatternOrder[j], strs[i])]

\* the types a pattern answers
PatternTypes(p) ==
  CASE p = "uuid" -> {"uuid"}
    [] p = "boolean" -> {"boolean"}
    [] p = "integer" -> {"integer", "bigint"}
    [] p = "numeric" -> {"numeric"}
    [] p = "date" -> {"date"}
    [] p = "timestamp" -> {"timestamptz"}
    [] p = "email" -> {"text"}
    [] OTHER -> {"text"} \cup { "varchar(" \o ToString(n + VarcharBuffer) \o ")" : n \in 1..(VarcharLimit - 1) }

\* C22: on a column with at least one sampled value, heuristic_type_inference
\* returns the type of the first pattern, in the order UUID, boolean, integer,
\* numeric, date, timestamp, email, default, that every sampled value
\* matches; one value outside a pattern disqualifies the pattern.
C22_FirstFullMatchWins ==
  (ret.status # "none" /\ str_values(arg) # <<>>)
  => /\ ret.status = "returned"
     /\ ret.value.pg_type \in PatternTypes(FirstFullMatch(str_values(arg)))

\* the integer cells of the pool that lie outside [-2147483648, 2147483647]
BeyondInt32 ==
  { <<"2","1","4","7","4","8","3","6","4","8">>,
    <<"-","2","1","4","7","4","8","3","6","4","9">>,
    <<"9","9","9","9","9","9","9","9","9","9","9","9","9","9","9","9","9","9","9","9">> }

\* every sampled value parses as an integer and they are not all boolean tokens
IntegerColumn(column) ==
  LET strs == str_values(column)
  IN  /\ strs # <<>>
      /\ \A i \in DOMAIN strs : IsPyInt(strs[i])
      /\ \E i \in DOMAIN strs : Lower(strs[i]) \notin boolean_values

\* C23: on a column whose sampled values all parse as integers (not all of
\* them boolean tokens) heuristic_type_inference returns integer when the
\* least and the greatest value lie in [-2147483648, 2147483647] and bigint
\* otherwise: 2147483648, -2147483649 and values beyond 64 bits give bigint.
C23_IntegerOrBigint ==
  (ret.status # "none" /\ IntegerColumn(arg))
  => /\ ret.status = "returned"
     /\ ret.value.pg_type =
          IF \E i \in DOMAIN str_values(arg) : str_values(arg)[i] \in BeyondInt32
          THEN "bigint" ELSE "integer"

\* the least value is one below the range, the greatest is its upper end
C23_Witness ==
  /\ ret.status = "returned" /\ ret.value.pg_type = "bigint"
  /\ arg.values = << <<"-","2","1","4","7","4","8","3","6","4","9">>,
                     <<"2","1","4","7","4","8","3","6","4","7">> >>

\* C24: for chunk_size >= 1 every chunk returned by chunk_columns or
\* chunk_columns_smart holds at least one and at most chunk_size columns.
C24_ChunkSizeBounds ==
  (entry = "async" /\ phase # "CHUNKING")
  => \A k \in DOMAIN chunks :
       /\ Len(chunks[k].columns) >= 1
       /\ Len(chunks[k].columns) <= chunk_size

\* smart chunking closed a full chunk of one group and left a smaller one
C24_Witness ==
  /\ phase = "DISPATCHING" /\ use_smart_chunking /\ chunk_size = MaxChunkSize
  /\ Len(chunks) = 2
  /\ Len(chunks[1].columns) = chunk_size
  /\ Len(chunks[2].columns) < chunk_size
  /\ column_prefix(chunks[1].columns[1]) # column_prefix(chunks[2].columns[1])

\* the headers whose prefix is seen for the first time, in header order
FirstSeen ==
  LET first == { i \in DOMAIN sample.headers :
                   \A j \in 1..(i - 1) :
                     column_prefix(sample.headers[j]) # column_prefix(sample.headers[i]) }
  IN  [k \in 1..Cardinality(first) |->
         CHOOSE i \in first : Cardinality({ j \in first : j < i }) = k - 1]

\* the columns of the group of header i, in header order
GroupOf(i) ==
  SelectSeq(sample.headers,
            LAMBDA h : column_prefix(h) = column_prefix(sample.headers[i]))

\* the chunks that hold a column of the group of header i
ChunksOf(i) ==
  { k \in DOMAIN chunks :
      \E j \in DOMAIN chunks[k].columns :
        column_prefix(chunks[k].columns[j]) = column_prefix(sample.headers[i]) }

\* C25: chunk_columns_smart groups the columns by the text before their first
\* '_' ('other' without '_') and handles the groups in first-seen order; a
\* group of at most chunk_size columns lies inside one chunk; a larger group
\* is cut into consecutive chunks of exactly chunk_size columns, the last
\* possibly smaller, that hold no column of another group.
C25_SmartChunkingKeepsGroups ==
  (entry = "async" /\ use_smart_chunking /\ phase # "CHUNKING"
     /\ sample.headers # <<>>)
  => /\ ChunkedColumns = Flatten([k \in DOMAIN FirstSeen |-> GroupOf(FirstSeen[k])])
     /\ \A n \in DOMAIN FirstSeen :
          LET i == FirstSeen[n]
              ks == ChunksOf(i)
          IN  IF Len(GroupOf(i)) <= chunk_size
              THEN Cardinality(ks) = 1
              ELSE /\ \A a \in ks : \A b \in ks : \A c \in DOMAIN chunks :
                        (a <= c /\ c <= b) => c \in ks
                   /\ \A k \in ks :
                        /\ \A j \in DOMAIN chunks[k].columns :
                             column_prefix(chunks[k].columns[j])
                               = column_prefix(sample.headers[i])
                        /\ (\E b \in ks : b > k)
                             => Len(chunks[k].columns) = chunk_size

\* the header list is one group of three columns, cut for chunk_size 2 into a
\* chunk of two and a chunk of one
C25_Witness ==
  /\ phase = "DISPATCHING" /\ use_smart_chunking /\ chunk_size = 2
  /\ Len(sample.headers) = 3 /\ Len(FirstSeen) = 1
  /\ Len(chunks) = 2
  /\ Len(chunks[1].columns) = 2 /\ Len(chunks[2].columns) = 1

\* the calls made so far that failed
FailedCalls == SelectSeq(api_calls, LAMBDA o : o # "types")

\* the sleeps that follow n failed attempts of which the last possible one is
\* not followed by a sleep
ExpectedSleeps(n) ==
  LET slept == IF n < arg.retry_attempts THEN n ELSE arg.retry_attempts - 1
  IN  IF slept <= 0 THEN <<>>
      ELSE [k \in 1..slept |-> arg.retry_delay * 2^(k - 1)]

\* C26: infer_types_sync makes at most retry_attempts API calls; it returns
\* at the first call that yields a parsed non-empty list and calls no more;
\* after failed attempt k (from 0) other than the last it sleeps
\* retry_delay * 2^k; after retry_attempts failures in a row it raises; the
\* call has one outcome.
C26_BoundedRetriesWithBackoff ==
  /\ [](Len(api_calls) <= arg.retry_attempts)
  /\ [](sleeps = ExpectedSleeps(Len(FailedCalls)))
  /\ [](ret.status = "returned"
          => /\ api_calls[Len(api_calls)] = "types"
             /\ Len(FailedCalls) = Len(api_calls) - 1)
  /\ [](ret.status = "raised"
          => /\ Len(api_calls) = arg.retry_attempts
             /\ FailedCalls = api_calls)
  /\ [][ret.status # "none" => (api_calls' = api_calls /\ sleeps' = sleeps
                                  /\ ret'.status = ret.status)]_vars

\* the call returned at its fourth attempt, after sleeping 5, 10 and 20
C26_Witness ==
  /\ ret.status = "returned" /\ Len(api_calls) = 4
  /\ arg.retry_delay = 5 /\ sleeps = <<5, 10, 20>>

\* the headers of the failed chunks, in chunk_id order
FailedHeaderSeq ==
  Flatten([k \in DOMAIN chunks |->
             IF tasks[k].state = "exception" THEN chunks[k].columns ELSE <<>>])

\* where header h stands in FailedHeaderSeq (0: nowhere)
FailedPosition(h) ==
  IF \E p \in DOMAIN FailedHeaderSeq : FailedHeaderSeq[p] = h
  THEN CHOOSE p \in DOMAIN FailedHeaderSeq : FailedHeaderSeq[p] = h
  ELSE 0

\* C27: infer_schema_async makes one request per chunk, all of them before it
\* waits, and the schema it returns is determined by the outcome of each
\* chunk, whatever the order in which the requests completed: the columns are
\* the results of the succeeded chunks in chunk_id order, then the fallback
\* results of the failed chunks in chunk_id order, and the key is selected
\* among these columns.
C27_OutcomeNotCompletionOrder ==
  entry = "async"
  => /\ phase \in {"DISPATCHING", "MERGING", "FINALIZING", "DONE"}
          => (Len(tasks) = Len(chunks) /\ chunks # <<>>)
     /\ phase = "DONE"
          => LET n == Len(SucceededReplies)
                 m == Len(schema.columns)
             IN  /\ m >= n
                 /\ \A i \in 1..n :
                      /\ schema.columns[i].name = SucceededReplies[i].column_name
                      /\ schema.columns[i].pg_type = SucceededReplies[i].pg_type
                 /\ m > n => use_fallback
                 /\ \A i \in (n + 1)..m :
                      /\ FailedPosition(schema.columns[i].name) > 0
                      /\ \A j \in (n + 1)..(i - 1) :
                           FailedPosition(schema.columns[j].name)
                             < FailedPosition(schema.columns[i].name)
                 /\ schema.primary_key = select_primary_key(schema.columns)

\* the first and the last of three requests succeeded, the one between them
\* failed and its column was classified by the fallback
C27_Witness ==
  /\ entry = "async" /\ phase = "DONE" /\ use_fallback /\ Len(tasks) = 3
  /\ tasks[1].state = "ok" /\ tasks[2].state = "exception" /\ tasks[3].state = "ok"
  /\ Len(schema.columns) = 3
  /\ schema.columns[3].name = chunks[2].columns[1]

\* the priority score of final column i (NoCandidate: none)
FinalScore(i) ==
  IF entry = "async" THEN pk_priority(schema.columns[i])
  ELSE pk_priority_heuristic(schema.columns[i])

\* the final columns with the lowest score among the candidates
LowestScored ==
  { i \in DOMAIN schema.columns :
      /\ FinalScore(i) # NoCandidate
      /\ \A j \in DOMAIN schema.columns :
           FinalScore(j) # NoCandidate => FinalScore(i) <= FinalScore(j) }

\* C28: when several final columns share the lowest primary-key score, the
\* one that comes first in the final column order is the primary key.
C28_FirstOfTiedCandidates ==
  phase = "DONE"
  => IF LowestScored = {} THEN schema.primary_key = None
     ELSE \E i \in LowestScored :
            /\ \A j \in LowestScored : i <= j
            /\ schema.primary_key = schema.columns[i].name

\* two columns of different names share the lowest score; the earlier one is
\* the key
C28_Witness ==
  /\ phase = "DONE" /\ Cardinality(LowestScored) >= 2
  /\ \E i \in LowestScored : \E j \in LowestScored :
       /\ i < j
       /\ schema.columns[i].name # schema.columns[j].name
       /\ schema.primary_key = schema.columns[i].name

\* the order of the positions of import_csv
StepRank ==
  [create |-> 0, sample |-> 1, mark_sampled |-> 2, infer |-> 3,
   mark_inferred |-> 4, generate |-> 5, mark_generated |-> 6, done |-> 7,
   exit |-> 8]

\* the phase this run has persisted when it stands at a position
PersistedAt ==
  [infer |-> "sampled", generate |-> "inferred", done |-> "generated"]

\* a change of the state file writes, whole, the phase of the step that has
\* just returned
PersistStep ==
  state_file' # state_file
  => /\ state_file'.written = JsonParts
     /\ \/ step = "mark_sampled" /\ state_file'.state.phase = "sampled"
        \/ step = "mark_inferred" /\ state_file'.state.phase = "inferred"
        \/ step = "mark_generated" /\ state_file'.state.phase = "generated"

\* C29: during import_csv the phase persisted in the state file advances in
\* the order SAMPLED, INFERRED, GENERATED, each of them persisted only after
\* its step returned; once a step (or a save) has raised, the run persists
\* nothing more.
C29_PhasesPersistedInOrder ==
  /\ [][PersistStep]_vars
  /\ [][step' # step => StepRank[step'] > StepRank[step]]_vars
  /\ [][step = "exit" => state_file' = state_file]_vars
  /\ [](step \in DOMAIN PersistedAt
          => /\ state_file.exists
             /\ state_file.written = JsonParts
             /\ state_file.state.phase = PersistedAt[step])

\* the inference raised after SAMPLED was persisted over the file of an
\* earlier run: the file stays at SAMPLED
C29_Witness ==
  /\ step = "exit" /\ ret.status = "none"
  /\ state_file.exists /\ state_file.state.phase = "sampled"
  /\ state_file.state.status = "pending"

\* the CSV file is the one the state records: same path, and a checksum that
\* could be computed and is equal
SameCsv ==
  /\ arg.state.csv_path = arg.csv_path
  /\ arg.current_checksum.status = "returned"
  /\ arg.current_checksum.value = arg.state.csv_checksum

\* C30: can_resume returns true only for a state whose status is FAILED or
\* IN_PROGRESS and whose CSV path and checksum are those of the file; it
\* returns false for every COMPLETED and every PENDING state and when the
\* path or the checksum differs or the checksum cannot be computed; it
\* leaves the state as it was.
C30_CanResumeOnlyUnfinishedSameCsv ==
  /\ [](ret.status = "returned"
          => (ret.value[1] <=> (arg.state.status \in {"failed", "in_progress"} /\ SameCsv)))
  /\ [](ret.status = "returned" /\ arg.state.status \in {"completed", "pending"}
          => ~ret.value[1])
  /\ [](ret.status # "raised")
  /\ [][arg'.state = arg.state]_vars

\* a state left IN_PROGRESS whose file is unchanged can resume
C30_Witness ==
  /\ ret.status = "returned" /\ ret.value[1]
  /\ arg.state.status = "in_progress" /\ arg.state.phase = "inferred"
  /\ SameCsv

=============================================================================
